---- MODULE Spec2Model ----
(***************************************************************************)
(* Mnemo / Memory Bridge: the data-lake server (src/server.js) and the     *)
(* MemoryBridge library (src/index.js) as state machines.                  *)
(*                                                                         *)
(* Strings are modelled by what the code does with them:                   *)
(*   - a project identifier is a sequence of one-character strings, so     *)
(*     that getProjectDbPath's lower-casing and character filter are       *)
(*     computed, not assumed;                                              *)
(*   - a content string is a prefix of a base text (see Content below),    *)
(*     so that length tests, substring(0,197) + '...' and LIKE '%q%' are   *)
(*     computed on lengths and word positions;                             *)
(*   - a timestamp is a number of ticks (TicksPerDay ticks to one UTC      *)
(*     calendar day).                                                      *)
(***************************************************************************)
EXTENDS Integers, Sequences, FiniteSets, TLC

VARIABLES
    now,       \* the wall clock, in ticks
    lake,      \* DATA_LAKE_BASE: sanitized project name -> partition
    nextId,    \* number of ids handed out by generateId so far
    purged,    \* history: ids of the rows hard-deleted by cleanup
    resp,      \* the response of the most recent request
    reqs,      \* store requests in flight, step by step (getDb, initDatabase, INSERT)
    jobs,      \* compressOldMemories invocations in flight
    pass,      \* the runMaintenance pass in flight
    bridge     \* the database of a MemoryBridge instance (src/index.js)

vars == <<now, lake, nextId, purged, resp, reqs, jobs, pass, bridge>>

\* the variables the one-request-at-a-time routes leave alone
inFlight == <<reqs, jobs, pass>>

----------------------------------------------------------------------------
(* Bounds of the model *)

TicksPerDay == 2
MaxIds == 2
NumRequests == 2
NumJobs == 1

(* Program constants *)
DefaultCleanupDays == 90
DefaultCleanupMaxImportance == 3
DefaultCompressDays == 30
DefaultQueryDays == 30
DefaultQueryLimit == 5
DefaultTimelineDays == 7
DefaultImportance == 5
MinImportance == 1
MaxImportance == 10
MaxContentLength == 10000
CompressThreshold == 200
CompressKeep == 197
CompressBatch == 100
MaxQueryResults == 100
MaxTimelineDays == 365
KeywordCap == 10
BridgeContentKeep == 5000
BridgeCandidates == 50
EllipsisLength == 3

Days(d) == d * TicksPerDay
DateOf(t) == t \div TicksPerDay

(* The instants at which requests arrive: the clock only moves forward     *)
(* through them.                                                           *)
Instants == {0, 1, Days(31), Days(91) + 1}

----------------------------------------------------------------------------
(* JavaScript values as they arrive in a JSON request body *)

Undefined == [t |-> "undefined"]
JsNum(n) == [t |-> "number", n |-> n]
JsStr(s) == [t |-> "string", s |-> s]
JsNaN == [t |-> "NaN"]
\* a string kept as its sequence of characters (project identifiers)
JsChars(cs) == [t |-> "chars", s |-> cs]
\* an object (a metadata body), kept as the entries the model tracks
JsObj(o) == [t |-> "object", s |-> o]

\* ToBoolean, as `x || d` applies it
Truthy(v) ==
    CASE v.t = "undefined" -> FALSE
      [] v.t = "NaN" -> FALSE
      [] v.t = "number" -> v.n # 0
      [] v.t = "string" -> v.s # ""
      [] v.t = "chars" -> Len(v.s) > 0
      [] OTHER -> TRUE

\* x || d
OrElse(v, d) == IF Truthy(v) THEN v ELSE d

\* The numeric strings of the model and their values; every other string
\* converts to NaN.
NumericStrings == {"7", "0", "12"}
StrValue(s) == CASE s = "7" -> 7 [] s = "0" -> 0 [] s = "12" -> 12 [] s = "" -> 0 [] OTHER -> 0

\* ToNumber
ToNumber(v) ==
    CASE v.t = "number" -> v
      [] v.t = "string" -> IF v.s \in NumericStrings \cup {""} THEN JsNum(StrValue(v.s)) ELSE JsNaN
      [] OTHER -> JsNaN

\* Math.max(a, b) and Math.min(a, b): NaN if either argument converts to NaN
MathMax(a, b) ==
    LET x == ToNumber(a) y == ToNumber(b)
    IN IF x.t = "NaN" \/ y.t = "NaN" THEN JsNaN
       ELSE IF x.n >= y.n THEN x ELSE y

MathMin(a, b) ==
    LET x == ToNumber(a) y == ToNumber(b)
    IN IF x.t = "NaN" \/ y.t = "NaN" THEN JsNaN
       ELSE IF x.n <= y.n THEN x ELSE y

----------------------------------------------------------------------------
(* Project identifiers and getProjectDbPath *)

LowerLetters == {"a","b","c","d","e","f","g","h","i","j","k","l","m",
                 "n","o","p","q","r","s","t","u","v","w","x","y","z"}
Digits == {"0","1","2","3","4","5","6","7","8","9"}

\* String.prototype.toLowerCase on one character (the upper-case letters
\* the model's identifiers use)
ToLowerCase(c) ==
    CASE c = "A" -> "a" [] c = "B" -> "b" [] c = "G" -> "g" [] c = "P" -> "p"
      [] OTHER -> c

\* [a-z0-9_-]
AllowedChar(c) == c \in LowerLetters \cup Digits \cup {"_", "-"}

\* project.toLowerCase().replace(/[^a-z0-9_-]/g, '')
Sanitize(project) ==
    LET lowered == [i \in 1..Len(project) |-> ToLowerCase(project[i])]
    IN SelectSeq(lowered, AllowedChar)

General == <<"g","e","n","e","r","a","l">>

\* a plausible slip: every project resolved to one shared database
getProjectDbPathShared(project) == General

\* getProjectDbPath: the partition (memory-<sanitized>/bridge.db) a project
\* identifier resolves to
getProjectDbPath(project) == Sanitize(project)

----------------------------------------------------------------------------
(* SQL values: NULL is the empty sequence, a value v is <<v>> *)

Null == <<>>
Some(v) == <<v>>
IsNull(x) == x = <<>>
Val(x) == x[1]

\* What node-sqlite3 binds for a JavaScript number: NaN is stored as NULL
BindNumber(v) == IF v.t = "number" THEN Some(v.n) ELSE Null

----------------------------------------------------------------------------
(* Content strings.  A base text has a length and words ending at known    *)
(* positions; a content value is the first `cut` characters of its base    *)
(* text followed by `dots` copies of '...'.                                *)

Texts == {"note", "report", "edge200", "edge201", "manual", "dump"}

TextLen(t) ==
    CASE t = "note" -> 40
      [] t = "report" -> 300
      [] t = "edge200" -> CompressThreshold
      [] t = "edge201" -> CompressThreshold + 1
      [] t = "manual" -> BridgeContentKeep + 1000
      [] t = "dump" -> MaxContentLength + 1

\* the words of a text: [w |-> word, end |-> index just past its last char]
TextWords(t) ==
    CASE t = "note" -> {[w |-> "this", end |-> 4], [w |-> "api", end |-> 8],
                        [w |-> "payment", end |-> 15]}
      [] t = "report" -> {[w |-> "payment", end |-> 15], [w |-> "release", end |-> 250]}
      [] t = "edge200" -> {[w |-> "payment", end |-> 200]}
      [] t = "edge201" -> {[w |-> "release", end |-> 201]}
      [] t = "manual" -> {[w |-> "payment", end |-> 15], [w |-> "release", end |-> 5500]}
      [] t = "dump" -> {[w |-> "payment", end |-> 15]}

Text(t) == [base |-> t, cut |-> TextLen(t), dots |-> 0]

\* content.length
Length(c) == c.cut + EllipsisLength * c.dots

\* content.substring(0, n)
Substring(c, n) ==
    IF n >= Length(c) THEN c
    ELSE [base |-> c.base, cut |-> IF n < c.cut THEN n ELSE c.cut, dots |-> 0]

\* content + '...'
Ellipsis(c) == [c EXCEPT !.dots = c.dots + 1]

\* number of occurrences of the word q in the content
Occurrences(c, q) == Cardinality({x \in TextWords(c.base) : x.w = q /\ x.end <= c.cut})

\* LOWER(content) LIKE LOWER('%q%')
Like(c, q) == Occurrences(c, q) > 0

----------------------------------------------------------------------------
(* Metadata: the JSON text of the metadata column, as the entries it       *)
(* holds.  "absent" is a missing key; compressed is "true" for JSON true   *)
(* and "1" for the JSON number 1.                                          *)

EmptyMeta == [compressed |-> "absent", original_length |-> 0, source |-> "absent"]
SourceMeta == [EmptyMeta EXCEPT !.source = "cli"]
FlaggedMeta == [EmptyMeta EXCEPT !.compressed = "true"]

\* json_object('compressed', true, 'original_length', n): SQLite's TRUE is
\* the integer 1, so the object holds the number 1, not JSON true
JsonObjectCompressed(n) ==
    [compressed |-> "1", original_length |-> n, source |-> "absent"]

\* metadata LIKE '%"compressed":true%'
LikeCompressedTrue(m) == m.compressed = "true"

----------------------------------------------------------------------------
(* Partitions *)

NoPartition == [dir |-> FALSE, file |-> FALSE, schema |-> FALSE, rows |-> <<>>]

\* the identifiers requests use, and the partitions they map to
ProjectIds == {General, <<"a","1">>, <<"A","1">>, <<"a",".","1">>}
Partitions == {Sanitize(p) : p \in ProjectIds}

\* listProjects: the memory-<name> directories of the data lake
listProjects == {n \in Partitions : lake[n].dir}

\* getProjectDbPath + getDb with no other request in flight: the directory,
\* the database file and its schema exist afterwards
Opened(part) == [part EXCEPT !.dir = TRUE, !.file = TRUE, !.schema = TRUE]

RowIds(rows) == {rows[i].id : i \in 1..Len(rows)}
AllIds == UNION {RowIds(lake[n].rows) : n \in Partitions}

\* generateId: crypto.randomUUID(), a value never handed out before
generateId == nextId + 1

\* the INSERT of storeMemory; id is the PRIMARY KEY
InsertRow(rows, row) ==
    IF row.id \in RowIds(rows) THEN rows ELSE Append(rows, row)

----------------------------------------------------------------------------
(* SQL ordering and row selection *)

\* x < y in SQLite's ordering of a nullable integer column: NULL is least
NullLess(x, y) ==
    IF IsNull(y) THEN FALSE ELSE IF IsNull(x) THEN TRUE ELSE Val(x) < Val(y)

\* ORDER BY: a stable sort of s; before is the set of index pairs <<i, j>>
\* for which s[i] is to be listed before s[j], and rows equal under the
\* ordering stay in rowid order
SortBy(s, before) ==
    LET n == Len(s)
        rank(i) == Cardinality({j \in 1..n :
                      \/ <<j, i>> \in before
                      \/ (<<i, j>> \notin before /\ j < i)}) + 1
    IN [k \in 1..n |-> s[CHOOSE i \in 1..n : rank(i) = k]]

\* the index pairs of s that QueryBefore / NewestFirst order
Pairs(s) == (1..Len(s)) \X (1..Len(s))

\* LIMIT n (a negative n is no limit)
Limit(s, n) == IF n < 0 \/ n >= Len(s) THEN s ELSE SubSeq(s, 1, n)

\* new Date(); setDate(getDate() - days)
Cutoff(days) == now - Days(days)

----------------------------------------------------------------------------
(* storeMemory *)

NewRow(id, agentId, content, type, importance, project, metadata) ==
    [id |-> id, agent_id |-> agentId, content |-> content, content_type |-> type,
     importance |-> BindNumber(importance), project |-> project,
     metadata |-> metadata, created_at |-> now, updated_at |-> now,
     deleted_at |-> Null]

\* a plausible slip: content already stored in the partition is not stored again
storeMemoryDedup(part, id, agentId, content, type, importance, project, metadata) ==
    IF \E i \in 1..Len(part.rows) : part.rows[i].content = content
    THEN Opened(part)
    ELSE [Opened(part) EXCEPT !.rows =
            InsertRow(part.rows, NewRow(id, agentId, content, type, importance, project, metadata))]

\* the partition after storeMemory's INSERT
storeMemory(part, id, agentId, content, type, importance, project, metadata) ==
    [Opened(part) EXCEPT !.rows =
        InsertRow(part.rows, NewRow(id, agentId, content, type, importance, project, metadata))]

\* Math.min(10, Math.max(1, importance || 5))
ClampImportance(importance) ==
    MathMin(JsNum(MaxImportance),
            MathMax(JsNum(MinImportance), OrElse(importance, JsNum(DefaultImportance))))

----------------------------------------------------------------------------
(* queryMemories *)

\* (LENGTH(content) - LENGTH(REPLACE(LOWER(content), LOWER(q), ''))) / LENGTH(q)
Relevance(row, q) == Occurrences(row.content, q)

\* a plausible slip: the deleted_at test left out
QueryWhereNoDeletedTest(row, q, agentId, since, type) ==
    /\ row.created_at > since
    /\ (Truthy(agentId) => row.agent_id = agentId.s)
    /\ (Truthy(type) => row.content_type = type.s)
    /\ Like(row.content, q)

QueryWhere(row, q, agentId, since, type) ==
    /\ IsNull(row.deleted_at)
    /\ row.created_at > since
    /\ (Truthy(agentId) => row.agent_id = agentId.s)
    /\ (Truthy(type) => row.content_type = type.s)
    /\ Like(row.content, q)

\* SELECT id, agent_id, content, content_type, importance, metadata,
\*        created_at, (...) as relevance
QueryColumns(row, q) ==
    [id |-> row.id, agent_id |-> row.agent_id, content |-> row.content,
     content_type |-> row.content_type, importance |-> row.importance,
     metadata |-> row.metadata, created_at |-> row.created_at,
     relevance |-> Relevance(row, q)]

\* ORDER BY importance DESC, relevance DESC, created_at DESC
QueryBefore(a, b) ==
    \/ NullLess(b.importance, a.importance)
    \/ /\ a.importance = b.importance
       /\ \/ a.relevance > b.relevance
          \/ a.relevance = b.relevance /\ a.created_at > b.created_at

queryMemories(rows, q, agentId, limit, days, type) ==
    LET hits == SelectSeq(rows, LAMBDA r : QueryWhere(r, q, agentId, Cutoff(days), type))
        scored == [i \in 1..Len(hits) |-> QueryColumns(hits[i], q)]
    IN Limit(SortBy(scored, {x \in Pairs(scored) : QueryBefore(scored[x[1]], scored[x[2]])}), limit)

----------------------------------------------------------------------------
(* getTimeline *)

TimelineWhere(row, agentId, since) ==
    /\ IsNull(row.deleted_at)
    /\ row.created_at > since
    /\ (Truthy(agentId) => row.agent_id = agentId.s)

\* SELECT id, agent_id, content, content_type, importance, created_at
TimelineColumns(row) ==
    [id |-> row.id, agent_id |-> row.agent_id, content |-> row.content,
     content_type |-> row.content_type, importance |-> row.importance,
     created_at |-> row.created_at]

\* ORDER BY created_at DESC
NewestFirst(a, b) == a.created_at > b.created_at

\* rows grouped under created_at.split('T')[0], a key existing once a row
\* has been pushed under it
getTimeline(rows, agentId, days) ==
    LET where == SelectSeq(rows, LAMBDA r : TimelineWhere(r, agentId, Cutoff(days)))
        found == SortBy(where, {x \in Pairs(where) : NewestFirst(where[x[1]], where[x[2]])})
        hits == [i \in 1..Len(found) |-> TimelineColumns(found[i])]
        dates == {DateOf(hits[i].created_at) : i \in 1..Len(hits)}
    IN [d \in dates |-> SelectSeq(hits, LAMBDA r : DateOf(r.created_at) = d)]

----------------------------------------------------------------------------
(* cleanupOldMemories *)

\* created_at < ? AND importance <= ? AND deleted_at IS NULL
CleanupWhere(row, cutoff, maxImportance) ==
    /\ row.created_at < cutoff
    /\ ~IsNull(row.importance) /\ Val(row.importance) <= maxImportance
    /\ IsNull(row.deleted_at)

\* the rows the DELETE leaves
cleanupOldMemories(rows, days, maxImportance) ==
    SelectSeq(rows, LAMBDA r : ~CleanupWhere(r, Cutoff(days), maxImportance))

----------------------------------------------------------------------------
(* The routes of the data-lake server, one request at a time *)

NoResp == [op |-> "none"]

\* POST /api/memory/store; each response is recorded together with the type
\* and the importance the request body carried
StoreRoute(content, type, importance, agentId, project, metadata) ==
    IF ~Truthy(content)
    THEN /\ resp' = [op |-> "store", status |-> 400,
                     given |-> [type |-> type, importance |-> importance]]
         /\ UNCHANGED <<now, lake, nextId, purged, inFlight, bridge>>
    ELSE LET proj == OrElse(project, JsChars(General)).s
             name == getProjectDbPath(proj)
             id == generateId
             imp == ClampImportance(importance)
             agent == OrElse(agentId, JsStr("default")).s
             ty == OrElse(type, JsStr("insight")).s
             meta == IF Truthy(metadata) THEN metadata.s ELSE EmptyMeta
             part == storeMemory(lake[name], id, agent, Text(content.s), ty, imp, proj, meta)
             err == id \in RowIds(lake[name].rows)
         IN /\ nextId < MaxIds
            /\ nextId' = nextId + 1
            /\ lake' = [lake EXCEPT ![name] = part]
            /\ resp' = IF err THEN [op |-> "store", status |-> 500,
                                     given |-> [type |-> type, importance |-> importance]]
                       ELSE [op |-> "store", status |-> 200, id |-> id,
                             content |-> Text(content.s), type |-> ty,
                             importance |-> imp, project |-> proj, agentId |-> agent,
                             createdAt |-> now,
                             given |-> [type |-> type, importance |-> importance]]
            /\ UNCHANGED <<now, purged, inFlight, bridge>>

\* GET /api/memory/query; limit and days are parseInt's results.  The route
\* reads q, project, agentId, limit, days and type from the query string;
\* any other parameter, minImportance included, is not looked at.  The
\* response is recorded together with the minImportance the request carried.
QueryRouteWith(q, project, agentId, limit, days, type, minImportance) ==
    IF ~Truthy(q)
    THEN /\ resp' = [op |-> "query", status |-> 400]
         /\ UNCHANGED <<now, lake, nextId, purged, inFlight, bridge>>
    ELSE LET proj == OrElse(project, JsChars(General)).s
             name == getProjectDbPath(proj)
             results == queryMemories(lake[name].rows, q.s, agentId,
                                      OrElse(limit, JsNum(DefaultQueryLimit)).n,
                                      OrElse(days, JsNum(DefaultQueryDays)).n, type)
         IN /\ lake' = [lake EXCEPT ![name] = Opened(@)]
            /\ resp' = [op |-> "query", status |-> 200, query |-> q.s, project |-> proj,
                        count |-> Len(results), results |-> results,
                        minImportance |-> minImportance]
            /\ UNCHANGED <<now, nextId, purged, inFlight, bridge>>

\* GET /api/memory/query without a minImportance parameter
QueryRoute(q, project, agentId, limit, days, type) ==
    QueryRouteWith(q, project, agentId, limit, days, type, Undefined)

\* GET /api/memory/timeline
TimelineRoute(project, agentId, days) ==
    LET proj == OrElse(project, JsChars(General)).s
        name == getProjectDbPath(proj)
        d == OrElse(days, JsNum(DefaultTimelineDays)).n
    IN /\ lake' = [lake EXCEPT ![name] = Opened(@)]
       /\ resp' = [op |-> "timeline", status |-> 200, project |-> proj,
                   days |-> JsNum(d), agentId |-> agentId,
                   timeline |-> getTimeline(lake[name].rows, agentId, d)]
       /\ UNCHANGED <<now, nextId, purged, inFlight, bridge>>

\* POST /api/cleanup; the response also records the body's days and
\* maxImportance as they were supplied
CleanupRoute(project, days, maxImportance) ==
    LET proj == OrElse(project, JsChars(General)).s
        name == getProjectDbPath(proj)
        d == OrElse(days, JsNum(DefaultCleanupDays)).n
        m == OrElse(maxImportance, JsNum(DefaultCleanupMaxImportance)).n
        kept == cleanupOldMemories(lake[name].rows, d, m)
    IN /\ lake' = [lake EXCEPT ![name] = [Opened(@) EXCEPT !.rows = kept]]
       /\ purged' = purged \cup (RowIds(lake[name].rows) \ RowIds(kept))
       /\ resp' = [op |-> "cleanup", status |-> 200, project |-> proj,
                   deleted |-> Len(lake[name].rows) - Len(kept),
                   days |-> days, maxImportance |-> maxImportance]
       /\ UNCHANGED <<now, nextId, inFlight, bridge>>

\* A soft delete: the deletion timestamp of one row is set.  No function of
\* the repository sets deleted_at; the data model of the specification
\* provides for it.
SoftDelete(name, i) ==
    /\ i \in 1..Len(lake[name].rows)
    /\ IsNull(lake[name].rows[i].deleted_at)
    /\ lake' = [lake EXCEPT ![name].rows[i].deleted_at = Some(now)]
    /\ resp' = NoResp
    /\ UNCHANGED <<now, nextId, purged, inFlight, bridge>>

\* time passes
Tick(t) ==
    /\ t > now
    /\ now' = t
    /\ resp' = NoResp
    /\ UNCHANGED <<lake, nextId, purged, inFlight, bridge>>

----------------------------------------------------------------------------
(* A store request step by step.  getDb tests fs.existsSync(dbPath) in the  *)
(* request's own turn of the event loop; the opening of the file, the       *)
(* schema script and the INSERT run later, each on SQLite's worker thread,  *)
(* and the steps of other requests come in between.                         *)

IdleRequest == [pc |-> "idle", name |-> General, project |-> General]

\* POST /api/memory/store up to getDb's test of the database file:
\* getProjectDbPath makes the directory, then fs.existsSync(dbPath)
StoreGetDb(r, project) ==
    LET proj == OrElse(project, JsChars(General)).s
        name == getProjectDbPath(proj)
    IN /\ reqs[r].pc = "idle"
       /\ reqs' = [reqs EXCEPT ![r] =
                     [pc |-> IF lake[name].file THEN "insert" ELSE "init_open",
                      name |-> name, project |-> proj]]
       /\ lake' = [lake EXCEPT ![name].dir = TRUE]
       /\ UNCHANGED <<now, nextId, purged, resp, jobs, pass, bridge>>

\* initDatabase: new sqlite3.Database(dbPath) creates the file, still empty
StoreInitOpen(r) ==
    /\ reqs[r].pc = "init_open"
    /\ lake' = [lake EXCEPT ![reqs[r].name].file = TRUE]
    /\ reqs' = [reqs EXCEPT ![r].pc = "init_exec"]
    /\ UNCHANGED <<now, nextId, purged, resp, jobs, pass, bridge>>

\* initDatabase: db.exec(CREATE TABLE IF NOT EXISTS ...), then resolve();
\* getDb goes on to open its connection
StoreInitExec(r) ==
    /\ reqs[r].pc = "init_exec"
    /\ lake' = [lake EXCEPT ![reqs[r].name].schema = TRUE]
    /\ reqs' = [reqs EXCEPT ![r].pc = "insert"]
    /\ UNCHANGED <<now, nextId, purged, resp, jobs, pass, bridge>>

\* storeMemory: db.prepare(INSERT INTO memories ...) and stmt.run on the
\* connection getDb returned.  With no memories table the statement cannot
\* be prepared ("no such table: memories") and the store does not succeed.
StoreInsert(r) ==
    LET name == reqs[r].name
        id == generateId
    IN /\ reqs[r].pc = "insert"
       /\ IF lake[name].schema
          THEN /\ lake' = [lake EXCEPT ![name].rows =
                             InsertRow(@, NewRow(id, "default", Text("note"), "insight",
                                                 JsNum(DefaultImportance), reqs[r].project,
                                                 EmptyMeta))]
               /\ nextId' = nextId + 1
               /\ reqs' = [reqs EXCEPT ![r].pc = "done"]
               /\ resp' = [op |-> "store", status |-> 200, id |-> id,
                           content |-> Text("note"), type |-> "insight",
                           importance |-> JsNum(DefaultImportance),
                           project |-> reqs[r].project, agentId |-> "default",
                           createdAt |-> now]
          ELSE /\ reqs' = [reqs EXCEPT ![r].pc = "failed"]
               /\ resp' = [op |-> "store", status |-> 500]
               /\ UNCHANGED <<lake, nextId>>
       /\ UNCHANGED <<now, purged, jobs, pass, bridge>>

----------------------------------------------------------------------------
(* compressOldMemories step by step: the SELECT of the candidates, then    *)
(* one awaited UPDATE per long row, then the settling of its promise.      *)
(* Other requests run between the steps.  fail says that the statement of  *)
(* the step comes back with an error (SQLITE_BUSY, an I/O error).          *)

IdleJob ==
    [pc |-> "idle", owner |-> "route", name |-> General, project |-> General,
     rows |-> <<>>, compressed |-> 0, seen |-> {}, touched |-> {}, db |-> "closed"]

\* created_at < ? AND deleted_at IS NULL AND metadata NOT LIKE '%"compressed":true%'
CompressWhere(row, cutoff) ==
    /\ row.created_at < cutoff
    /\ IsNull(row.deleted_at)
    /\ ~LikeCompressedTrue(row.metadata)

\* SELECT id, content, content_type, created_at
CompressColumns(row) ==
    [id |-> row.id, content |-> row.content, content_type |-> row.content_type,
     created_at |-> row.created_at]

\* the rows of the SELECT: ORDER BY created_at DESC LIMIT 100
CompressCandidates(rows, days) ==
    LET where == SelectSeq(rows, LAMBDA r : CompressWhere(r, Cutoff(days)))
        found == SortBy(where, {x \in Pairs(where) : NewestFirst(where[x[1]], where[x[2]])})
    IN Limit([i \in 1..Len(found) |-> CompressColumns(found[i])], CompressBatch)

\* a plausible slip: every selected row is rewritten, whatever its length
IsLongAlways(content) == TRUE

\* row.content.length > 200
IsLong(content) == Length(content) > CompressThreshold

\* row.content.substring(0, 197) + '...'
Summary(content) == Ellipsis(Substring(content, CompressKeep))

\* UPDATE memories SET content = ?, metadata = json_object('compressed', true,
\*   'original_length', ?), updated_at = ? WHERE id = ?
CompressUpdate(rows, id, summary, originalLength) ==
    [i \in 1..Len(rows) |->
        IF rows[i].id = id
        THEN [rows[i] EXCEPT !.content = summary,
                             !.metadata = JsonObjectCompressed(originalLength),
                             !.updated_at = now]
        ELSE rows[i]]

\* the ids of the rows whose metadata carries a compressed entry
FlaggedIds(rows) ==
    {rows[i].id : i \in {k \in 1..Len(rows) : rows[k].metadata.compressed # "absent"}}

\* compressOldMemories(project, days) up to the callback of db.all.  seen
\* and touched are history: the rows flagged as compressed when the SELECT
\* ran, and the rows this invocation has issued an UPDATE for.  db is the
\* handle getDb returned: open until a db.close() is reached.
CompressSelect(j, owner, project, days, fail) ==
    LET name == getProjectDbPath(project)
        found == CompressCandidates(lake[name].rows, days)
    IN /\ jobs[j].pc = "idle"
       /\ lake' = [lake EXCEPT ![name] = Opened(@)]
       /\ jobs' = [jobs EXCEPT ![j] =
                     [pc |-> IF fail THEN "rejected"
                             ELSE IF found = <<>> THEN "resolved" ELSE "loop",
                      owner |-> owner, name |-> name, project |-> project,
                      rows |-> IF fail THEN <<>> ELSE found,
                      compressed |-> 0,
                      seen |-> FlaggedIds(lake[name].rows), touched |-> {},
                      db |-> IF fail \/ found = <<>> THEN "closed" ELSE "open"]]

\* one turn of the for loop.  A failing UPDATE rejects inside the async
\* callback of db.all, where nothing catches it: the promise
\* compressOldMemories returned is never settled and db is never closed.
CompressStep(j, fail) ==
    LET job == jobs[j]
        row == Head(job.rows)
        rest == Tail(job.rows)
        after == IF rest = <<>> THEN "resolved" ELSE "loop"
        handle == IF rest = <<>> THEN "closed" ELSE "open"
    IN /\ job.pc = "loop"
       /\ IF ~IsLong(row.content)
          THEN /\ ~fail
               /\ jobs' = [jobs EXCEPT ![j].rows = rest, ![j].pc = after,
                                       ![j].db = handle]
               /\ UNCHANGED lake
          ELSE IF fail
          THEN /\ jobs' = [jobs EXCEPT ![j].pc = "hung",
                                       ![j].touched = @ \cup {row.id}]
               /\ UNCHANGED lake
          ELSE /\ lake' = [lake EXCEPT ![job.name].rows =
                             CompressUpdate(@, row.id, Summary(row.content),
                                            Length(row.content))]
               /\ jobs' = [jobs EXCEPT ![j].rows = rest, ![j].pc = after,
                                       ![j].db = handle,
                                       ![j].compressed = @ + 1,
                                       ![j].touched = @ \cup {row.id}]
       /\ UNCHANGED <<now, nextId, purged, resp, reqs, pass, bridge>>

\* POST /api/compress, up to the SELECT
CompressRoute(j, project, days) ==
    /\ CompressSelect(j, "route", OrElse(project, JsChars(General)).s,
                      OrElse(days, JsNum(DefaultCompressDays)).n, FALSE)
    /\ UNCHANGED <<now, nextId, purged, resp, reqs, pass, bridge>>

\* POST /api/compress: the response, once compressOldMemories has settled
CompressRespond(j) ==
    /\ jobs[j].owner = "route"
    /\ jobs[j].pc \in {"resolved", "rejected"}
    /\ resp' = IF jobs[j].pc = "resolved"
               THEN [op |-> "compress", status |-> 200, project |-> jobs[j].project,
                     compressed |-> jobs[j].compressed]
               ELSE [op |-> "compress", status |-> 500]
    /\ jobs' = [jobs EXCEPT ![j] = IdleJob]
    /\ UNCHANGED <<now, lake, nextId, purged, reqs, pass, bridge>>

----------------------------------------------------------------------------
(* runMaintenance step by step: for each project of listProjects, in turn, *)
(* await cleanupOldMemories(project, 90, 3) and then                       *)
(* await compressOldMemories(project, 30), both inside one try block.      *)

\* the orders in which fs.readdirSync may list the members of S
Orders(S) ==
    {s \in [1..Cardinality(S) -> S] : \A i, k \in 1..Cardinality(S) : i # k => s[i] # s[k]}

IdlePass ==
    [pc |-> "idle", todo |-> <<>>, job |-> 0, cleaned |-> 0, compressed |-> 0,
     failed |-> {}]

\* the next turn of the for loop, or the end of the pass
PassOn(p) ==
    [p EXCEPT !.todo = Tail(@), !.job = 0,
              !.pc = IF Tail(p.todo) = <<>> THEN "finish" ELSE "cleanup"]

\* runMaintenance: const projects = listProjects()
MaintStart ==
    /\ pass.pc = "idle"
    /\ \E order \in Orders(listProjects) :
          pass' = [IdlePass EXCEPT !.todo = order,
                                  !.pc = IF order = <<>> THEN "finish" ELSE "cleanup"]
    /\ UNCHANGED <<now, lake, nextId, purged, resp, reqs, jobs, bridge>>

\* await cleanupOldMemories(project, 90, 3); a rejection lands in the catch
MaintCleanup(fail) ==
    LET project == Head(pass.todo)
        name == getProjectDbPath(project)
        kept == cleanupOldMemories(lake[name].rows, DefaultCleanupDays,
                                   DefaultCleanupMaxImportance)
    IN /\ pass.pc = "cleanup"
       /\ IF fail
          THEN /\ pass' = [PassOn(pass) EXCEPT !.failed = @ \cup {project}]
               /\ lake' = [lake EXCEPT ![name] = Opened(@)]
               /\ UNCHANGED purged
          ELSE /\ lake' = [lake EXCEPT ![name] = [Opened(@) EXCEPT !.rows = kept]]
               /\ purged' = purged \cup (RowIds(lake[name].rows) \ RowIds(kept))
               /\ pass' = [pass EXCEPT !.pc = "compress",
                                       !.cleaned = @ + Len(lake[name].rows) - Len(kept)]
       /\ UNCHANGED <<now, nextId, resp, reqs, jobs, bridge>>

\* await compressOldMemories(project, 30), up to its SELECT
MaintCompress(j, fail) ==
    /\ pass.pc = "compress"
    /\ CompressSelect(j, "maintenance", Head(pass.todo), DefaultCompressDays, fail)
    /\ pass' = [pass EXCEPT !.pc = "await", !.job = j]
    /\ UNCHANGED <<now, nextId, purged, resp, reqs, bridge>>

\* the await of compressOldMemories returns or throws into the catch
MaintAfterCompress ==
    LET job == jobs[pass.job]
    IN /\ pass.pc = "await"
       /\ job.pc \in {"resolved", "rejected"}
       /\ pass' = IF job.pc = "resolved"
                  THEN [PassOn(pass) EXCEPT !.compressed = @ + job.compressed]
                  ELSE [PassOn(pass) EXCEPT !.failed = @ \cup {Head(pass.todo)}]
       /\ jobs' = [jobs EXCEPT ![pass.job] = IdleJob]
       /\ UNCHANGED <<now, lake, nextId, purged, resp, reqs, bridge>>

\* return { cleaned: totalCleaned, compressed: totalCompressed }
MaintFinish ==
    /\ pass.pc = "finish"
    /\ pass' = [pass EXCEPT !.pc = "done"]
    /\ resp' = [op |-> "maintenance", status |-> 200, cleaned |-> pass.cleaned,
                compressed |-> pass.compressed]
    /\ UNCHANGED <<now, lake, nextId, purged, reqs, jobs, bridge>>

----------------------------------------------------------------------------
(* The query across all projects                                           *)

\* GET /api/memory/query-all

DefaultSubLimit == 3
DefaultOverallLimit == 10

\* the importance as the subtraction of the sort reads it: null counts 0
ImportanceNumber(r) == IF IsNull(r.importance) THEN 0 ELSE Val(r.importance)

\* a plausible slip: the operands of the subtraction exchanged
ImportanceBeforeAscending(a, b) == ImportanceNumber(a) < ImportanceNumber(b)

\* allResults.sort((a, b) => b.importance - a.importance)
ImportanceBefore(a, b) == ImportanceNumber(a) > ImportanceNumber(b)

\* Array.prototype.slice(0, n)
Slice(s, n) ==
    LET end == IF n < 0 THEN MathMax(JsNum(Len(s) + n), JsNum(0)).n
               ELSE MathMin(JsNum(n), JsNum(Len(s))).n
    IN SubSeq(s, 1, end)

\* allResults.push(...results) for one project after the other
RECURSIVE Flatten(_)
Flatten(lists) == IF lists = <<>> THEN <<>> ELSE Head(lists) \o Flatten(Tail(lists))

\* results.map(r => ({ ...r, project }))
WithProject(r, project) ==
    [id |-> r.id, agent_id |-> r.agent_id, content |-> r.content,
     content_type |-> r.content_type, importance |-> r.importance,
     metadata |-> r.metadata, created_at |-> r.created_at,
     relevance |-> r.relevance, project |-> project]

\* the results of the project a turn of the for loop queries
ProjectResults(project, q, agentId, limit) ==
    LET results == queryMemories(lake[getProjectDbPath(project)].rows, q, agentId,
                                 OrElse(limit, JsNum(DefaultSubLimit)).n,
                                 DefaultQueryDays, Undefined)
    IN [i \in 1..Len(results) |-> WithProject(results[i], project)]

\* the handler's allResults after the sort, for the projects in the order
\* listProjects gave them
queryAll(projects, q, agentId, limit) ==
    LET allResults == Flatten([k \in 1..Len(projects) |->
                                 ProjectResults(projects[k], q, agentId, limit)])
    IN SortBy(allResults, {x \in Pairs(allResults) :
                  ImportanceBefore(allResults[x[1]], allResults[x[2]])})

\* the route; limit is parseInt's result.  The response is recorded together
\* with the agentId and the limit the request carried.
QueryAllRoute(q, agentId, limit) ==
    IF ~Truthy(q)
    THEN /\ resp' = [op |-> "query-all", status |-> 400]
         /\ UNCHANGED <<now, lake, nextId, purged, inFlight, bridge>>
    ELSE /\ \E projects \in Orders(listProjects) :
              LET allResults == queryAll(projects, q.s, agentId, limit)
              IN resp' = [op |-> "query-all", status |-> 200, query |-> q.s,
                          projectsSearched |-> projects, count |-> Len(allResults),
                          results |-> Slice(allResults,
                                            OrElse(limit, JsNum(DefaultOverallLimit)).n),
                          agentId |-> agentId, limit |-> limit]
         /\ lake' = [n \in Partitions |->
                       IF n \in {getProjectDbPath(x) : x \in listProjects}
                       THEN Opened(lake[n]) ELSE lake[n]]
         /\ UNCHANGED <<now, nextId, purged, inFlight, bridge>>

----------------------------------------------------------------------------
(* MemoryBridge (src/index.js) over its SQLite database                    *)

\* Timestamps as the texts SQLite compares.  CURRENT_TIMESTAMP gives
\* 'YYYY-MM-DD HH:MM:SS'; Date.prototype.toISOString gives
\* 'YYYY-MM-DDTHH:MM:SS.sssZ'.
CurrentTimestamp(t) == [date |-> DateOf(t), sep |-> " ", time |-> t % TicksPerDay]
ToISOString(t) == [date |-> DateOf(t), sep |-> "T", time |-> t % TicksPerDay]

\* the instant a timestamp text stands for
InstantOf(ts) == Days(ts.date) + ts.time

\* a < b as SQLite compares two TEXT values: character by character, and
\* the space (0x20) sorts before the letter T (0x54)
TextLess(a, b) ==
    \/ a.date < b.date
    \/ /\ a.date = b.date
       /\ \/ a.sep = " " /\ b.sep = "T"
          \/ a.sep = b.sep /\ a.time < b.time

\* the length of the words the texts are made of
WordLength(w) ==
    CASE w = "payment" -> 7 [] w = "release" -> 7 [] w = "this" -> 4 [] w = "api" -> 3
      [] OTHER -> 0

\* isStopWord
isStopWord(w) == w \in {"this", "that", "with", "from", "have", "been", "were"}

\* the words of a content in the order they appear
WordsInOrder(c) ==
    LET ws == {x \in TextWords(c.base) : x.end <= c.cut}
        idx == [k \in 1..Cardinality(ws) |->
                   CHOOSE x \in ws : Cardinality({y \in ws : y.end < x.end}) = k - 1]
    IN [k \in 1..Cardinality(ws) |-> idx[k].w]

\* extractKeywords: the nouns and topics of the content (every word of the
\* model's texts is one), lower-cased, longer than 3 characters, no stop
\* word, the first 10
extractKeywords(c) ==
    Limit(SelectSeq(WordsInOrder(c), LAMBDA w : WordLength(w) > 3 /\ ~isStopWord(w)),
          KeywordCap)

\* calculateImportance
calculateImportance(content, type) ==
    LET score == 5 + (IF Length(content) > 200 THEN 1 ELSE 0)
                   + (IF type = "insight" THEN 2 ELSE 0)
                   + (IF type = "error" THEN 1 ELSE 0)
                   + (IF type = "security" THEN 3 ELSE 0)
                   + (IF type = "goal" THEN 2 ELSE 0)
    IN IF score > MaxImportance THEN MaxImportance ELSE score

validTypes ==
    {"insight", "preference", "error", "goal", "decision", "security", "conversation"}

\* validateStoreInput; agent ids of the model match /^[a-zA-Z0-9_-]{1,64}$/
validateStoreInput(content, importance, type) ==
    /\ content.t = "string"
    /\ content.s # ""
    /\ TextLen(content.s) <= MaxContentLength
    /\ importance.t # "undefined" =>
          /\ ToNumber(importance).t = "number"
          /\ ToNumber(importance).n >= MinImportance
          /\ ToNumber(importance).n <= MaxImportance
    /\ Truthy(type) => type.s \in validTypes

\* MemoryBridge.store with storeSQLite; the outcome is recorded together
\* with the type and the importance the options carried
BridgeStore(content, agentId, type, importance) ==
    IF ~validateStoreInput(content, importance, type)
    THEN /\ resp' = [op |-> "bridge.store", status |-> "thrown",
                     given |-> [type |-> type, importance |-> importance]]
         /\ UNCHANGED <<now, lake, nextId, purged, inFlight, bridge>>
    ELSE LET agent == OrElse(agentId, JsStr("default")).s
             ty == OrElse(type, JsStr("insight")).s
             text == Text(content.s)
             imp == OrElse(importance, JsNum(calculateImportance(text, ty)))
             id == generateId
             row == [id |-> id, agent_id |-> agent,
                     content |-> Substring(text, BridgeContentKeep),
                     content_type |-> ty,
                     metadata |-> [keywords |-> extractKeywords(text), source |-> "unknown"],
                     importance |-> BindNumber(ToNumber(imp)),
                     created_at |-> CurrentTimestamp(now), deleted_at |-> Null]
         IN /\ nextId < MaxIds
            /\ nextId' = nextId + 1
            /\ bridge' = Append(bridge, row)
            /\ resp' = [op |-> "bridge.store", status |-> "resolved", id |-> id,
                        given |-> [type |-> type, importance |-> importance]]
            /\ UNCHANGED <<now, lake, purged, inFlight>>

\* WHERE agent_id = ? AND deleted_at IS NULL AND created_at > ? AND importance >= ?
BridgeWhere(row, agentId, cutoff, minImportance) ==
    /\ row.agent_id = agentId
    /\ IsNull(row.deleted_at)
    /\ TextLess(ToISOString(cutoff), row.created_at)
    /\ ~IsNull(row.importance) /\ Val(row.importance) >= minImportance

\* the number of query keywords some keyword of the memory contains or is
\* contained in; no word of the model is a proper part of another
Matches(queryKeywords, memKeywords) ==
    Len(SelectSeq(queryKeywords,
                  LAMBDA qk : \E k \in 1..Len(memKeywords) : memKeywords[k] = qk))

\* (b.relevance * b.importance) - (a.relevance * a.importance) < 0, with
\* relevance = matches / queryKeywords.length on both sides
BridgeBefore(a, b) == a.matches * Val(a.importance) > b.matches * Val(b.importance)

\* a plausible slip: the candidates taken oldest first
CandidateBeforeOldest(a, b) == TextLess(a.created_at, b.created_at)

\* ORDER BY created_at DESC
CandidateBefore(a, b) == TextLess(b.created_at, a.created_at)

\* relevance: queryKeywords.length > 0 ? matches / queryKeywords.length : 0,
\* as a fraction
BridgeRelevance(m) ==
    IF m.of > 0 THEN [num |-> m.matches, den |-> m.of] ELSE [num |-> 0, den |-> 1]

\* querySQLite
querySQLite(rows, agentId, queryKeywords, limit, days, minImportance) ==
    LET where == SelectSeq(rows, LAMBDA r : BridgeWhere(r, agentId, Cutoff(days), minImportance))
        newest == SortBy(where, {x \in Pairs(where) :
                     CandidateBefore(where[x[1]], where[x[2]])})
        cand == Limit(newest, BridgeCandidates)
        scored == [i \in 1..Len(cand) |->
                     [id |-> cand[i].id, content |-> cand[i].content,
                      importance |-> cand[i].importance,
                      created_at |-> cand[i].created_at,
                      matches |-> Matches(queryKeywords, cand[i].metadata.keywords),
                      of |-> Len(queryKeywords)]]
        hits == SelectSeq(scored, LAMBDA m : m.matches > 0 \/ queryKeywords = <<>>)
    IN Limit(SortBy(hits, {x \in Pairs(hits) : BridgeBefore(hits[x[1]], hits[x[2]])}), limit)

\* extractKeywords(queryString) for a query string given as its words
QueryKeywords(words) ==
    LET kept == SelectSeq(words, LAMBDA w : WordLength(w) > 3 /\ ~isStopWord(w))
        first == SelectSeq([i \in 1..Len(kept) |-> [w |-> kept[i], i |-> i]],
                           LAMBDA x : \A k \in 1..(x.i - 1) : kept[k] # x.w)
    IN Limit([i \in 1..Len(first) |-> first[i].w], KeywordCap)

\* MemoryBridge.query; the query string is given as its words
BridgeQueryWith(words, agentId, limit, days, minImportance) ==
    LET agent == OrElse(agentId, JsStr("default")).s
        lim == MathMin(OrElse(ToNumber(limit), JsNum(DefaultQueryLimit)), JsNum(MaxQueryResults)).n
        d == MathMin(OrElse(ToNumber(days), JsNum(DefaultQueryDays)), JsNum(MaxTimelineDays)).n
        m == OrElse(ToNumber(minImportance), JsNum(0)).n
        queryKeywords == QueryKeywords(words)
    IN /\ resp' = [op |-> "bridge.query", status |-> "resolved", query |-> words,
                   keywords |-> queryKeywords, agentId |-> agent, days |-> d,
                   limit |-> lim, minImportance |-> m,
                   results |-> querySQLite(bridge, agent, queryKeywords, lim, d, m)]
       /\ UNCHANGED <<now, lake, nextId, purged, inFlight, bridge>>

\* MemoryBridge.query with a query string of one word and default options
BridgeQuery(q, agentId, limit, days) ==
    BridgeQueryWith(<<q>>, agentId, limit, days, Undefined)

\* created_at.split('T')[0]: the text before the first T, which is the date
\* of an ISO text and the whole of a text that holds no T
SplitT(ts) ==
    IF ts.sep = "T" THEN [date |-> ts.date, rest |-> <<>>]
    ELSE [date |-> ts.date, rest |-> <<ts.sep, ts.time>>]

\* WHERE agent_id = ? AND deleted_at IS NULL AND created_at > ?
BridgeTimelineWhere(row, agentId, cutoff) ==
    /\ row.agent_id = agentId
    /\ IsNull(row.deleted_at)
    /\ TextLess(ToISOString(cutoff), row.created_at)

\* timelineSQLite: the rows newest first, grouped under split('T')[0]
timelineSQLite(rows, agentId, days) ==
    LET where == SelectSeq(rows, LAMBDA r : BridgeTimelineWhere(r, agentId, Cutoff(days)))
        found == SortBy(where, {x \in Pairs(where) :
                     CandidateBefore(where[x[1]], where[x[2]])})
        keys == {SplitT(found[i].created_at) : i \in 1..Len(found)}
    IN [k \in keys |-> SelectSeq(found, LAMBDA r : SplitT(r.created_at) = k)]

\* MemoryBridge.timeline
BridgeTimeline(days, agentId) ==
    LET n == MathMin(OrElse(ToNumber(days), JsNum(DefaultTimelineDays)),
                     JsNum(MaxTimelineDays)).n
        d == IF n < 1 THEN DefaultTimelineDays ELSE n
        agent == OrElse(agentId, JsStr("default")).s
    IN /\ resp' = [op |-> "bridge.timeline", status |-> "resolved", agentId |-> agent,
                   days |-> d, timeline |-> timelineSQLite(bridge, agent, d)]
       /\ UNCHANGED <<now, lake, nextId, purged, inFlight, bridge>>

----------------------------------------------------------------------------
(* The crypto module: AES-256-GCM with blind indexes.  Strings are         *)
(* sequences of UTF-16 code units; a byte is a record, so that plaintext    *)
(* bytes, ciphertext bytes and tag bytes are told apart.                    *)

AUTH_TAG_LENGTH == 16

HighSurrogate == "U+D83D"
LowSurrogate == "U+DE00"
Replacement == "U+FFFD"

\* the UTF-8 byte of an ASCII code unit
AsciiCode(c) ==
    CASE c = " " -> 32 [] c = "!" -> 33 [] c = "1" -> 49
      [] c = "A" -> 65 [] c = "B" -> 66 [] c = "G" -> 71 [] c = "P" -> 80
      [] c = "a" -> 97 [] c = "b" -> 98 [] c = "g" -> 103 [] c = "p" -> 112

AsciiChars == {" ", "!", "1", "A", "B", "G", "P", "a", "b", "g", "p"}

\* the 'utf8' encoding of a string: one byte for ASCII, two for U+00E9, four
\* for a surrogate pair, and the three bytes of U+FFFD for a surrogate that
\* has no partner
RECURSIVE Utf8Encode(_)
Utf8Encode(str) ==
    IF str = <<>> THEN <<>>
    ELSE IF str[1] \in AsciiChars THEN <<AsciiCode(str[1])>> \o Utf8Encode(Tail(str))
    ELSE IF str[1] = "U+00E9" THEN <<195, 169>> \o Utf8Encode(Tail(str))
    ELSE IF str[1] = HighSurrogate /\ Len(str) > 1 /\ str[2] = LowSurrogate
    THEN <<240, 159, 152, 128>> \o Utf8Encode(Tail(Tail(str)))
    ELSE <<239, 191, 189>> \o Utf8Encode(Tail(str))

\* a plausible slip: the plaintext decoded as 'latin1', byte by byte
Latin1Decode(bytes) ==
    [i \in 1..Len(bytes) |->
        IF bytes[i] < 128 THEN CHOOSE c \in AsciiChars : AsciiCode(c) = bytes[i]
        ELSE "U+00XX"]

\* the 'utf8' decoding of bytes; a byte sequence that is no UTF-8 gives
\* U+FFFD
RECURSIVE Utf8Decode(_)
Utf8Decode(bytes) ==
    IF bytes = <<>> THEN <<>>
    ELSE IF bytes[1] < 128
    THEN <<CHOOSE c \in AsciiChars : AsciiCode(c) = bytes[1]>> \o Utf8Decode(Tail(bytes))
    ELSE IF Len(bytes) >= 2 /\ SubSeq(bytes, 1, 2) = <<195, 169>>
    THEN <<"U+00E9">> \o Utf8Decode(SubSeq(bytes, 3, Len(bytes)))
    ELSE IF Len(bytes) >= 3 /\ SubSeq(bytes, 1, 3) = <<239, 191, 189>>
    THEN <<Replacement>> \o Utf8Decode(SubSeq(bytes, 4, Len(bytes)))
    ELSE IF Len(bytes) >= 4 /\ SubSeq(bytes, 1, 4) = <<240, 159, 152, 128>>
    THEN <<HighSurrogate, LowSurrogate>> \o Utf8Decode(SubSeq(bytes, 5, Len(bytes)))
    ELSE <<Replacement>> \o Utf8Decode(Tail(bytes))

\* AES-256-GCM in counter mode, byte i of the ciphertext: the plaintext byte
\* combined with byte i of the key stream of (key, iv)
CipherByte(key, iv, i, p) == [k |-> key, iv |-> iv, i |-> i, p |-> p]

\* byte i of the data deciphered under (key, iv): the plaintext byte where
\* the data byte is the one that key stream produced, garbage otherwise
PlainByte(key, iv, i, c) ==
    IF DOMAIN c = {"k", "iv", "i", "p"} /\ c.k = key /\ c.iv = iv /\ c.i = i
    THEN [plain |-> c.p]
    ELSE [garbled |-> c, at |-> i]

Decipher(key, iv, data) == [i \in 1..Len(data) |-> PlainByte(key, iv, i, data[i])]

\* the 16 bytes of the GCM tag of the data under (key, iv); it authenticates
\* the ciphertext, named here by what the data decipher to
AuthTag(key, iv, data) ==
    [n \in 1..AUTH_TAG_LENGTH |->
        [tk |-> key, tiv |-> iv, of |-> Decipher(key, iv, data), n |-> n]]

\* Buffer.toString('hex'): two characters a byte
ToHex(bytes) ==
    [i \in 1..(2 * Len(bytes)) |->
        [b |-> bytes[(i + 1) \div 2], half |-> IF i % 2 = 1 THEN "hi" ELSE "lo"]]

\* Buffer.from(text, 'hex'): a byte for each whole pair of characters; a
\* character left over at the end is dropped
FromHex(text) ==
    [i \in 1..(Len(text) \div 2) |->
        LET hi == text[2 * i - 1]
            lo == text[2 * i]
        IN IF hi.half = "hi" /\ lo.half = "lo" /\ hi.b = lo.b THEN hi.b
           ELSE [mixed |-> <<hi, lo>>]]

\* getHmacKey
getHmacKey(encKey) == [derived |-> encKey, from |-> "hmac-key-derivation"]

\* crypto.createHmac('sha256', hmacKey).update(text).digest('hex')
HmacHex(hmacKey, text) == [hmac |-> hmacKey, text |-> text]

\* String.prototype.toLowerCase
StringToLowerCase(str) == [i \in 1..Len(str) |-> ToLowerCase(str[i])]

\* split(/\s+/): the runs between the spaces; a string that begins or ends
\* with a space gives an empty run there
RECURSIVE SplitSpaces(_, _)
SplitSpaces(str, run) ==
    IF str = <<>> THEN <<run>>
    ELSE IF str[1] = " "
    THEN IF Len(str) > 1 /\ str[2] = " " THEN SplitSpaces(Tail(str), run)
         ELSE <<run>> \o SplitSpaces(Tail(str), <<>>)
    ELSE SplitSpaces(Tail(str), Append(run, str[1]))

\* [...new Set(words)]: each word once, where it first appears
Distinct(words) ==
    LET first == SelectSeq([i \in 1..Len(words) |-> [w |-> words[i], i |-> i]],
                           LAMBDA x : \A k \in 1..(x.i - 1) : words[k] # x.w)
    IN [i \in 1..Len(first) |-> first[i].w]

\* extractKeywords of the crypto module
cryptoExtractKeywords(content) ==
    LET kept == SelectSeq(StringToLowerCase(content),
                          LAMBDA c : c \in LowerLetters \cup Digits \cup {" "})
    IN Distinct(SelectSeq(SplitSpaces(kept, <<>>), LAMBDA w : Len(w) > 3))

\* encryptWithIndex, iv being the value crypto.randomBytes gave
encryptWithIndex(content, key, iv) ==
    LET bytes == Utf8Encode(content)
        data == [i \in 1..Len(bytes) |-> CipherByte(key, iv, i, bytes[i])]
        tag == AuthTag(key, iv, data)
        keywords == cryptoExtractKeywords(content)
        hmacKey == getHmacKey(key)
    IN [ciphertext |-> ToHex(data) \o ToHex(tag),
        iv |-> [hex |-> iv],
        blindIndexes |-> [i \in 1..Len(keywords) |->
                             HmacHex(hmacKey, StringToLowerCase(keywords[i]))]]

\* the tag lengths setAuthTag takes for GCM
ValidTagLengths == {4, 8, 12, 13, 14, 15, 16}

\* decrypt.  The decipher is created without authTagLength: a runtime that
\* takes short tags then verifies as many bytes as the tag has (shortTags),
\* another rejects every tag that is not 16 bytes long.
decrypt(ciphertext, ivHex, key, shortTags) ==
    LET iv == ivHex.hex
        encrypted == FromHex(ciphertext)
        n == Len(encrypted)
        tag == SubSeq(encrypted, MathMax(JsNum(n - AUTH_TAG_LENGTH), JsNum(0)).n + 1, n)
        data == SubSeq(encrypted, 1, MathMax(JsNum(n - AUTH_TAG_LENGTH), JsNum(0)).n)
        expected == AuthTag(key, iv, data)
        plain == Decipher(key, iv, data)
    IN IF Len(tag) \notin ValidTagLengths \/ (Len(tag) < AUTH_TAG_LENGTH /\ ~shortTags)
       THEN [status |-> "thrown", error |-> "Invalid authentication tag length"]
       ELSE IF \E i \in 1..Len(tag) : tag[i] # expected[i]
       THEN [status |-> "thrown", error |-> "Unsupported state or unable to authenticate data"]
       ELSE [status |-> "returned",
             plaintext |-> Utf8Decode([i \in 1..Len(plain) |-> plain[i].plain])]

\* a plausible slip: the query hashed as it was typed
generateQueryIndexAsTyped(query, key) == HmacHex(getHmacKey(key), query)

\* generateQueryIndex
generateQueryIndex(query, key) == HmacHex(getHmacKey(key), StringToLowerCase(query))

\* a caller with no blob in hand encrypts a content and holds what
\* encryptWithIndex returned
EncryptWithIndex(content, key, iv) ==
    LET out == encryptWithIndex(content, key, iv)
    IN /\ resp.op # "encrypt"
       /\ resp' = [op |-> "encrypt", content |-> content, key |-> key,
                   tampered |-> FALSE, ciphertext |-> out.ciphertext, iv |-> out.iv,
                   blindIndexes |-> out.blindIndexes]
       /\ UNCHANGED <<now, lake, nextId, purged, inFlight, bridge>>

\* the stored blob is modified before it reaches decrypt: one of its
\* characters is replaced by another
TamperCharacter ==
    /\ resp.op = "encrypt" /\ ~resp.tampered
    /\ \E i \in 1..Len(resp.ciphertext) :
          resp' = [resp EXCEPT !.tampered = TRUE,
                               !.ciphertext[i] = [b |-> [flipped |-> @.b], half |-> @.half]]
    /\ UNCHANGED <<now, lake, nextId, purged, inFlight, bridge>>

\* the stored blob is modified before it reaches decrypt: its end is cut off
TamperTruncate ==
    /\ resp.op = "encrypt" /\ ~resp.tampered
    /\ \E n \in 0..(Len(resp.ciphertext) - 1) :
          resp' = [resp EXCEPT !.tampered = TRUE,
                               !.ciphertext = SubSeq(@, 1, n)]
    /\ UNCHANGED <<now, lake, nextId, purged, inFlight, bridge>>

\* decrypt applied to the blob and the iv the caller holds
Decrypt(key, shortTags) ==
    /\ resp.op = "encrypt"
    /\ resp' = [op |-> "decrypt", content |-> resp.content, key |-> resp.key,
                usedKey |-> key, tampered |-> resp.tampered,
                outcome |-> decrypt(resp.ciphertext, resp.iv, key, shortTags)]
    /\ UNCHANGED <<now, lake, nextId, purged, inFlight, bridge>>

\* generateQueryIndex for a search against the record the caller holds
GenerateQueryIndex(query, key) ==
    /\ resp.op = "encrypt" /\ ~resp.tampered
    /\ resp' = [op |-> "index", content |-> resp.content, key |-> resp.key,
                blindIndexes |-> resp.blindIndexes, query |-> query, usedKey |-> key,
                token |-> generateQueryIndex(query, key)]
    /\ UNCHANGED <<now, lake, nextId, purged, inFlight, bridge>>

----------------------------------------------------------------------------
(* MemoryBridge's keyword extraction over strings of characters            *)

\* isStopWord's set
stops ==
    {<<"t","h","i","s">>, <<"t","h","a","t">>, <<"w","i","t","h">>, <<"f","r","o","m">>,
     <<"h","a","v","e">>, <<"b","e","e","n">>, <<"w","e","r","e">>}

\* basicExtract's set
stopWords ==
    stops \cup
    {<<"t","h","e","y">>, <<"t","h","e","i","r">>, <<"w","h","a","t">>, <<"w","h","e","n">>,
     <<"w","h","e","r","e">>, <<"w","h","i","c","h">>, <<"w","h","i","l","e">>,
     <<"a","b","o","u","t">>}

\* String.prototype.trim
RECURSIVE Trim(_)
Trim(str) ==
    IF str # <<>> /\ Head(str) = " " THEN Trim(Tail(str))
    ELSE IF str # <<>> /\ str[Len(str)] = " " THEN Trim(SubSeq(str, 1, Len(str) - 1))
    ELSE str

\* extractKeywords after nlp(content) gave the nouns followed by the topics:
\* the terms once each, then lower-cased and trimmed, the short ones and the
\* stop words dropped, the first 10
keywordsOfTerms(terms) ==
    LET lowered == [i \in 1..Len(Distinct(terms)) |->
                       Trim(StringToLowerCase(Distinct(terms)[i]))]
        long == SelectSeq(lowered, LAMBDA k : Len(k) > 3)
    IN Limit(SelectSeq(long, LAMBDA k : StringToLowerCase(k) \notin stops), KeywordCap)

\* basicExtract
basicExtract(content) ==
    LET spaced == [i \in 1..Len(content) |->
                      IF ToLowerCase(content[i]) \in LowerLetters \cup Digits \cup {" "}
                      THEN ToLowerCase(content[i]) ELSE " "]
        words == SelectSeq(SplitSpaces(spaced, <<>>),
                           LAMBDA w : Len(w) > 3 /\ w \notin stopWords)
    IN Limit(Distinct(words), KeywordCap)

\* extractKeywords for a content: nlp either gives terms or throws, and the
\* catch falls back on basicExtract
ExtractKeywords(content, terms, nlpThrows) ==
    /\ resp' = [op |-> "keywords", content |-> content, terms |-> terms,
                strategy |-> IF nlpThrows THEN "basicExtract" ELSE "nlp",
                keywords |-> IF nlpThrows THEN basicExtract(content)
                             ELSE keywordsOfTerms(terms)]
    /\ UNCHANGED <<now, lake, nextId, purged, inFlight, bridge>>

----------------------------------------------------------------------------
(* Spec: stores, queries and timelines over several project identifiers *)

Init ==
    /\ now = 0
    /\ lake = [n \in Partitions |-> NoPartition]
    /\ nextId = 0
    /\ purged = {}
    /\ resp = NoResp
    /\ reqs = <<>>
    /\ jobs = <<>>
    /\ pass = IdlePass
    /\ bridge = <<>>

ProjectInputs == {Undefined, JsChars(<<"a","1">>), JsChars(<<"A","1">>), JsChars(<<"a",".","1">>)}

Next ==
    \/ \E p \in ProjectInputs, c \in {Undefined, JsStr("note")} :
          StoreRoute(c, Undefined, Undefined, Undefined, p, Undefined)
    \/ \E p \in ProjectInputs, q \in {Undefined, JsStr("payment")} :
          QueryRoute(q, p, Undefined, Undefined, Undefined, Undefined)
    \/ \E p \in ProjectInputs : TimelineRoute(p, Undefined, Undefined)
    \/ \E t \in Instants : Tick(t)

Spec == Init /\ [][Next]_vars

----------------------------------------------------------------------------
(* SpecSweep: one project; stores of differing importance, soft deletes,   *)
(* cleanup, and the reads that follow                                      *)

SweepProject == JsChars(<<"a","1">>)
ImportanceInputs == {Undefined, JsNum(2)}
DaysInputs == {Undefined, JsNum(0), JsNum(30)}
MaxImportanceInputs == {Undefined, JsNum(0), JsNum(5)}

NextSweep ==
    \/ \E imp \in ImportanceInputs :
          StoreRoute(JsStr("note"), Undefined, imp, Undefined, SweepProject, Undefined)
    \/ QueryRoute(JsStr("payment"), SweepProject, Undefined, Undefined, JsNum(100), Undefined)
    \/ TimelineRoute(SweepProject, Undefined, JsNum(100))
    \/ \E d \in DaysInputs, m \in MaxImportanceInputs : CleanupRoute(SweepProject, d, m)
    \/ \E i \in 1..MaxIds : SoftDelete(getProjectDbPath(SweepProject.s), i)
    \/ \E t \in Instants : Tick(t)

SpecSweep == Init /\ [][NextSweep]_vars

----------------------------------------------------------------------------
(* SpecStore: the store route over every kind of importance a body can hold *)

BodyImportances ==
    {Undefined, JsNum(0), JsNum(0 - 3), JsNum(11), JsNum(7), JsStr("7"), JsStr("high")}

NextStore ==
    \/ \E p \in ProjectInputs, imp \in BodyImportances :
          StoreRoute(JsStr("note"), Undefined, imp, Undefined, p, Undefined)
    \/ \E t \in Instants : Tick(t)

SpecStore == Init /\ [][NextStore]_vars

----------------------------------------------------------------------------
(* SpecRace: store requests in flight together, on projects never seen     *)
(* before                                                                  *)

RaceProjects == {Undefined, JsChars(<<"a","1">>), JsChars(<<"A","1">>)}
Requests == 1..NumRequests

InitRace ==
    /\ now = 0
    /\ lake = [n \in Partitions |-> NoPartition]
    /\ nextId = 0
    /\ purged = {}
    /\ resp = NoResp
    /\ reqs = [r \in Requests |-> IdleRequest]
    /\ jobs = <<>>
    /\ pass = IdlePass
    /\ bridge = <<>>

NextRace ==
    \/ \E r \in Requests, p \in RaceProjects : StoreGetDb(r, p)
    \/ \E r \in Requests : StoreInitOpen(r)
    \/ \E r \in Requests : StoreInitExec(r)
    \/ \E r \in Requests : StoreInsert(r)

SpecRace == InitRace /\ [][NextRace]_vars

----------------------------------------------------------------------------
(* SpecCompress: one project; long and short records, some stored with a  *)
(* compressed flag of their own, and compress requests in flight together  *)

Jobs == 1..NumJobs
CompressContents == {JsStr("report"), JsStr("edge200")}
CompressMetadata == {Undefined, JsObj(FlaggedMeta)}

InitCompress ==
    /\ now = 0
    /\ lake = [n \in Partitions |-> NoPartition]
    /\ nextId = 0
    /\ purged = {}
    /\ resp = NoResp
    /\ reqs = <<>>
    /\ jobs = [j \in Jobs |-> IdleJob]
    /\ pass = IdlePass
    /\ bridge = <<>>

NextCompress ==
    \/ \E c \in CompressContents, m \in CompressMetadata :
          StoreRoute(c, Undefined, Undefined, Undefined, SweepProject, m)
    \/ \E j \in Jobs : CompressRoute(j, SweepProject, Undefined)
    \/ \E j \in Jobs : CompressStep(j, FALSE)
    \/ \E j \in Jobs : CompressRespond(j)
    \/ \E t \in Instants : Tick(t)

SpecCompress == InitCompress /\ [][NextCompress]_vars

----------------------------------------------------------------------------
(* SpecMaint: records in two projects, then a maintenance pass whose       *)
(* statements may fail                                                     *)

MaintProjects == {Undefined, JsChars(<<"a","1">>)}
MaintContents == {JsStr("note"), JsStr("report")}

InitMaint ==
    /\ now = 0
    /\ lake = [n \in Partitions |-> NoPartition]
    /\ nextId = 0
    /\ purged = {}
    /\ resp = NoResp
    /\ reqs = <<>>
    /\ jobs = [j \in Jobs |-> IdleJob]
    /\ pass = IdlePass
    /\ bridge = <<>>

NextMaint ==
    \/ \E p \in MaintProjects, c \in MaintContents, imp \in ImportanceInputs :
          StoreRoute(c, Undefined, imp, Undefined, p, Undefined)
    \/ \E t \in Instants : Tick(t)
    \/ MaintStart
    \/ \E fail \in BOOLEAN : MaintCleanup(fail)
    \/ \E j \in Jobs, fail \in BOOLEAN : MaintCompress(j, fail)
    \/ \E j \in Jobs, fail \in BOOLEAN : CompressStep(j, fail)
    \/ MaintAfterCompress
    \/ MaintFinish

SpecMaint == InitMaint /\ [][NextMaint]_vars

----------------------------------------------------------------------------
(* SpecRecall: stores followed by queries for one of the stored words, in  *)
(* a MemoryBridge and in a project of the server, up to 30 days apart      *)

RecallInstants == {0, 1, Days(DefaultQueryDays)}
RecallWords == {"payment", "release"}

NextRecall ==
    \/ \E c \in {Undefined, JsStr("note"), JsStr("report")}, imp \in {Undefined, JsNum(11)} :
          BridgeStore(c, Undefined, Undefined, imp)
    \/ \E q \in RecallWords : BridgeQuery(q, Undefined, Undefined, Undefined)
    \/ StoreRoute(JsStr("report"), Undefined, Undefined, Undefined, SweepProject, Undefined)
    \/ \E q \in RecallWords :
          QueryRoute(JsStr(q), SweepProject, Undefined, Undefined, Undefined, Undefined)
    \/ \E t \in RecallInstants : Tick(t)

SpecRecall == Init /\ [][NextRecall]_vars

----------------------------------------------------------------------------
(* SpecRank: a MemoryBridge holding records of differing importance and    *)
(* age; queries of one word, two words and no keyword at all, with and     *)
(* without a limit                                                         *)

RankInstants == {0, 1, 2}
RankQueries == {<<"payment">>, <<"payment", "release">>, <<"api">>}
RankImportances == {Undefined, JsNum(2), JsNum(9)}

NextRank ==
    \/ \E c \in {JsStr("note"), JsStr("report")}, imp \in RankImportances :
          BridgeStore(c, Undefined, Undefined, imp)
    \/ \E w \in RankQueries, lim \in {Undefined, JsNum(1)} :
          BridgeQueryWith(w, Undefined, lim, Undefined, Undefined)
    \/ \E t \in RankInstants : Tick(t)

SpecRank == Init /\ [][NextRank]_vars

----------------------------------------------------------------------------
(* SpecFloor: queries carrying a minimum importance, against a             *)
(* MemoryBridge and against a project of the server                        *)

NextFloor ==
    \/ \E imp \in RankImportances :
          BridgeStore(JsStr("note"), Undefined, Undefined, imp)
    \/ \E m \in {Undefined, JsNum(5)} :
          BridgeQueryWith(<<"payment">>, Undefined, Undefined, Undefined, m)
    \/ \E imp \in RankImportances :
          StoreRoute(JsStr("note"), Undefined, imp, Undefined, SweepProject, Undefined)
    \/ \E q \in {Undefined, JsStr("payment")}, m \in {Undefined, JsNum(5)} :
          QueryRouteWith(q, SweepProject, Undefined, Undefined, Undefined, Undefined, m)

SpecFloor == Init /\ [][NextFloor]_vars

----------------------------------------------------------------------------
(* SpecTimeline: records of two agents stored over two days, in a project  *)
(* of the server and in a MemoryBridge, and the timelines read from both   *)

TimelineInstants == {1, Days(1), Days(1) + 1}
TimelineAgents == {Undefined, JsStr("bot")}
TimelineDays == {Undefined, JsNum(1)}

NextTimeline ==
    \/ \E a \in TimelineAgents :
          StoreRoute(JsStr("note"), Undefined, Undefined, a, SweepProject, Undefined)
    \/ \E a \in TimelineAgents, d \in TimelineDays : TimelineRoute(SweepProject, a, d)
    \/ \E i \in 1..MaxIds : SoftDelete(getProjectDbPath(SweepProject.s), i)
    \/ \E a \in TimelineAgents : BridgeStore(JsStr("note"), a, Undefined, Undefined)
    \/ \E a \in TimelineAgents, d \in TimelineDays : BridgeTimeline(d, a)
    \/ \E t \in TimelineInstants : Tick(t)

SpecTimeline == Init /\ [][NextTimeline]_vars

----------------------------------------------------------------------------
(* SpecValidate: stores of every kind of type and importance, through the  *)
(* server's route and through MemoryBridge.store                           *)

StoreTypes == {Undefined, JsStr("insight"), JsStr("milestone"), JsStr("bogus")}
StoreImportances == {Undefined, JsNum(0), JsNum(11), JsNum(7)}

NextValidate ==
    \/ \E ty \in StoreTypes, imp \in StoreImportances :
          StoreRoute(JsStr("note"), ty, imp, Undefined, SweepProject, Undefined)
    \/ \E ty \in StoreTypes, imp \in StoreImportances :
          BridgeStore(JsStr("note"), Undefined, ty, imp)

SpecValidate == Init /\ [][NextValidate]_vars

----------------------------------------------------------------------------
(* SpecVerbatim: contents of 40, 6,000 and 10,001 characters stored in a   *)
(* MemoryBridge and read back by query and by timeline                     *)

VerbatimContents == {JsStr("note"), JsStr("manual"), JsStr("dump")}

NextVerbatim ==
    \/ \E c \in VerbatimContents, imp \in RankImportances :
          BridgeStore(c, Undefined, Undefined, imp)
    \/ \E q \in RecallWords : BridgeQuery(q, Undefined, Undefined, Undefined)
    \/ BridgeTimeline(Undefined, Undefined)
    \/ \E t \in RankInstants : Tick(t)

SpecVerbatim == Init /\ [][NextVerbatim]_vars

----------------------------------------------------------------------------
(* SpecAll: records of differing importance in two projects, and queries   *)
(* across all projects with and without a limit                            *)

AllLimits == {Undefined, JsNum(1)}

NextAll ==
    \/ \E p \in {Undefined, SweepProject}, imp \in RankImportances :
          StoreRoute(JsStr("note"), Undefined, imp, Undefined, p, Undefined)
    \/ \E q \in {Undefined, JsStr("payment")}, lim \in AllLimits :
          QueryAllRoute(q, Undefined, lim)
    \/ \E t \in RankInstants : Tick(t)

SpecAll == Init /\ [][NextAll]_vars

----------------------------------------------------------------------------
(* SpecCrypto: contents encrypted under two keys, blobs modified on the    *)
(* way, decrypted, and searched by blind index                             *)

CryptoKeys == {"k1", "k2"}
CryptoIvs == {"iv1", "iv2"}
IndexedContent ==
    <<"P","a","p","a","!"," ","p","a"," "," ","B","A","B","A","1"," ","p","a","p","a">>
Plaintexts ==
    {<<>>, <<"a">>, <<"U+00E9", "a">>, <<HighSurrogate, LowSurrogate>>,
     <<"a", HighSurrogate, LowSurrogate, "U+00E9">>, <<HighSurrogate>>,
     <<LowSurrogate, "a">>, <<"a", HighSurrogate, "a">>, IndexedContent}
IndexQueries ==
    {<<"p","a","p","a">>, <<"P","A","p","a">>, <<"P","A","P","A">>,
     <<"b","a","b","a","1">>, <<"B","a","b","A","1">>, <<"g","a","g","a">>}

NextCrypto ==
    \/ \E c \in Plaintexts, k \in CryptoKeys, iv \in CryptoIvs : EncryptWithIndex(c, k, iv)
    \/ TamperCharacter
    \/ TamperTruncate
    \/ \E k \in CryptoKeys, shortTags \in BOOLEAN : Decrypt(k, shortTags)
    \/ \E q \in IndexQueries, k \in CryptoKeys : GenerateQueryIndex(q, k)

SpecCrypto == Init /\ [][NextCrypto]_vars

----------------------------------------------------------------------------
(* SpecKeywords: keyword extraction over contents that hold capitals,      *)
(* punctuation, repeated words, short words and stop words                 *)

KeywordContents ==
    {<<"A","b","o","u","t"," ","P","a","p","a",","," ","p","a","p","a"," ","a","b">>,
     <<"t","h","e","y"," ","h","a","v","e"," "," ","b","a","b","a","1","!">>,
     <<" ","w","i","t","h"," ","g","a","g">>}
KeywordTerms ==
    {<<"P","a","p","a">>, <<"p","a","p","a">>, <<"A","b","o","u","t">>,
     <<"t","h","e","y">>, <<"h","a","v","e">>, <<"b","a","b","a","1">>,
     <<"g","a","g">>, <<"p","a","p","a"," ">>}
MaxTerms == 2

NextKeywords ==
    \/ \E c \in KeywordContents, n \in 0..MaxTerms : \E terms \in [1..n -> KeywordTerms] :
          ExtractKeywords(c, terms, FALSE)
    \/ \E c \in KeywordContents : ExtractKeywords(c, <<>>, TRUE)

SpecKeywords == Init /\ [][NextKeywords]_vars

----------------------------------------------------------------------------
(* SpecOverlap: a compression of one project whose UPDATE may fail, with   *)
(* stores and cleanups of the same project arriving between its steps      *)

OverlapMetadata == {Undefined, JsObj(FlaggedMeta), JsObj(SourceMeta)}

NextOverlap ==
    \/ \E c \in CompressContents, m \in OverlapMetadata :
          StoreRoute(c, Undefined, Undefined, Undefined, SweepProject, m)
    \/ \E t \in Instants : Tick(t)
    \/ \E j \in Jobs : CompressRoute(j, SweepProject, Undefined)
    \/ \E j \in Jobs, fail \in BOOLEAN : CompressStep(j, fail)
    \/ \E j \in Jobs : CompressRespond(j)
    \/ CleanupRoute(SweepProject, JsNum(30), JsNum(10))

SpecOverlap == InitCompress /\ [][NextOverlap]_vars

\* SpecOverlap with the scheduling of the event loop: every statement that
\* was issued completes, successfully or not, and its callback then runs;
\* a settled invocation's response is sent.
SpecOverlapLive ==
    /\ SpecOverlap
    /\ \A j \in Jobs : WF_vars(\E fail \in BOOLEAN : CompressStep(j, fail))
    /\ \A j \in Jobs : WF_vars(CompressRespond(j))

----------------------------------------------------------------------------
(* SpecBacklog: a partition holding one long record and, stored after it,  *)
(* a batch of short ones, all past the threshold; compress is then invoked *)
(* again and again and no statement fails                                  *)

\* the row storeMemory inserted for {content, project: 'a1'} at instant t
StoredAt(id, content, t) ==
    [id |-> id, agent_id |-> "default", content |-> Text(content),
     content_type |-> "insight", importance |-> Some(DefaultImportance),
     project |-> SweepProject.s, metadata |-> EmptyMeta,
     created_at |-> t, updated_at |-> t, deleted_at |-> Null]

\* a long record stored at instant 0, then n short ones stored at instant 1
Backlog(n) ==
    <<StoredAt(1, "report", 0)>> \o [i \in 1..n |-> StoredAt(i + 1, "note", 1)]

InitBacklog ==
    /\ now = Days(DefaultCompressDays + 1)
    /\ lake = [n \in Partitions |->
                 IF n = getProjectDbPath(SweepProject.s)
                 THEN [Opened(NoPartition) EXCEPT !.rows = Backlog(CompressBatch)]
                 ELSE NoPartition]
    /\ nextId = CompressBatch + 1
    /\ purged = {}
    /\ resp = NoResp
    /\ reqs = <<>>
    /\ jobs = [j \in Jobs |-> IdleJob]
    /\ pass = IdlePass
    /\ bridge = <<>>

NextBacklog ==
    \/ \E t \in Instants : Tick(t)
    \/ \E j \in Jobs : CompressRoute(j, SweepProject, Undefined)
    \/ \E j \in Jobs : CompressStep(j, FALSE)
    \/ \E j \in Jobs : CompressRespond(j)

SpecBacklog == InitBacklog /\ [][NextBacklog]_vars

\* SpecBacklog with the scheduling of the event loop: every invocation that
\* was started runs to its response
SpecBacklogLive ==
    /\ SpecBacklog
    /\ \A j \in Jobs : WF_vars(CompressStep(j, FALSE))
    /\ \A j \in Jobs : WF_vars(CompressRespond(j))

----------------------------------------------------------------------------
(* Properties *)

AllRows == UNION {{lake[n].rows[i] : i \in 1..Len(lake[n].rows)} : n \in Partitions}
SoftDeletedIds == {r.id : r \in {x \in AllRows : ~IsNull(x.deleted_at)}}

\* the project identifier a record was stored under (its project column)
StoredUnder(id) == (CHOOSE r \in AllRows : r.id = id).project

\* the rows a query or timeline response returned
Returned ==
    IF resp.op = "query" /\ resp.status = 200
    THEN {resp.results[i] : i \in 1..Len(resp.results)}
    ELSE IF resp.op = "timeline"
    THEN UNION {{resp.timeline[d][i] : i \in 1..Len(resp.timeline[d])} : d \in DOMAIN resp.timeline}
    ELSE {}

\* C1 as stated: a query or timeline on project p2 returns no record that
\* was stored under a different project identifier p1.
C1_IsolationByIdentifier ==
    \A r \in Returned : StoredUnder(r.id) = resp.project

\* C1, amended: a query or timeline on project p2 returns no record stored
\* under an identifier p1 whose sanitized name (lower-cased, characters
\* outside [a-z0-9_-] removed) differs from that of p2.
C1_IsolationBySanitizedName ==
    \A r \in Returned : Sanitize(StoredUnder(r.id)) = Sanitize(resp.project)

\* C1 witness: a query on one project comes back empty while another
\* project holds a live record containing the queried word.
C1_Witness ==
    /\ resp.op = "query" /\ resp.status = 200 /\ resp.results = <<>>
    /\ \E r \in AllRows : /\ Sanitize(r.project) # Sanitize(resp.project)
                          /\ Like(r.content, resp.query)
                          /\ r.created_at > Cutoff(DefaultQueryDays)

\* C6: every successful store adds exactly one record to its project's
\* partition, under an id no stored record had, and changes no other row;
\* the ids of all stored records are pairwise distinct (so two stores of
\* identical content give two records with two ids).
C6_StoreAddsOneFreshRecord ==
    /\ [](\A r1, r2 \in AllRows : r1.id = r2.id => r1 = r2)
    /\ [][(nextId' # nextId /\ resp'.status = 200) =>
            LET name == Sanitize(resp'.project)
                old == lake[name].rows
                new == lake'[name].rows
            IN /\ Len(new) = Len(old) + 1
               /\ SubSeq(new, 1, Len(old)) = old
               /\ new[Len(new)].id = resp'.id
               /\ resp'.id \notin AllIds
               /\ \A n \in Partitions \ {name} : lake'[n].rows = lake[n].rows]_vars

\* C6 witness: two records of identical content in one partition, stored by
\* two successful stores, under two ids.
C6_Witness ==
    /\ resp.op = "store" /\ resp.status = 200
    /\ \E n \in Partitions : \E i, j \in 1..Len(lake[n].rows) :
          /\ i # j
          /\ lake[n].rows[i].content = lake[n].rows[j].content
          /\ lake[n].rows[i].id # lake[n].rows[j].id
          /\ lake[n].rows[j].id = resp.id

\* C4 as stated: every record persisted through the store route has an
\* importance in [1,10], whatever importance the body supplied.
C4_ImportanceInRange ==
    \A r \in AllRows :
        /\ ~IsNull(r.importance)
        /\ Val(r.importance) >= MinImportance
        /\ Val(r.importance) <= MaxImportance

\* C5: no soft-deleted record and no record hard-deleted by cleanup is in
\* the result of a later query or timeline.
C5_DeletedNeverReturned ==
    \A r \in Returned : r.id \notin purged /\ r.id \notin SoftDeletedIds

\* C5 witness: a query answered after one record was soft-deleted and
\* another was hard-deleted by cleanup.
C5_Witness ==
    /\ resp.op = "query" /\ resp.status = 200
    /\ purged # {}
    /\ SoftDeletedIds # {}

C2_FirstWritersSucceed ==
    \A r \in Requests : reqs[r].pc # "failed"

\* the stored row of the given id
RowOf(rows, id) == rows[CHOOSE i \in 1..Len(rows) : rows[i].id = id]

\* C8: an invocation of compressOldMemories issues no UPDATE for a record
\* that was already flagged as compressed when the invocation selected its
\* candidates: once compressed, a record is not truncated or updated again.
C8_CompressedNeverRecompressed ==
    \A j \in Jobs : jobs[j].touched \cap jobs[j].seen = {}

\* C8 witness: an invocation has run to its end and compressed a record
\* while a record compressed by an earlier invocation was in the partition.
C8_Witness ==
    \E j \in Jobs :
        /\ jobs[j].pc = "resolved"
        /\ jobs[j].touched # {}
        /\ \E r \in AllRows : r.id \in jobs[j].seen /\ r.metadata.compressed = "1"

\* C9 as stated: a record compressOldMemories processes has, afterwards, a
\* content no longer than before and metadata holding compressed = true and
\* original_length = the content length before the compression; a candidate
\* of at most 200 characters is left unchanged.
C9_CompressEffect ==
    [][\A j \in Jobs :
        (jobs[j].pc = "loop" /\ jobs'[j].rows = Tail(jobs[j].rows)) =>
            LET row == Head(jobs[j].rows)
                old == RowOf(lake[jobs[j].name].rows, row.id)
                new == RowOf(lake'[jobs[j].name].rows, row.id)
            IN IF Length(row.content) <= CompressThreshold
               THEN new = old
               ELSE /\ Length(new.content) <= Length(row.content)
                    /\ new.metadata.compressed = "true"
                    /\ new.metadata.original_length = Length(row.content)]_vars

\* C10 as stated: when the cleanup or the compression of one project fails
\* during a maintenance pass, the pass goes on to the other projects and
\* completes; it is never left waiting on the failed operation.
C10_PassSurvivesFailure ==
    ~(pass.pc = "await" /\ jobs[pass.job].pc = "hung")

\* C3 as stated: a query for a keyword of a stored content, on the same
\* project or agent and within the default recency window of 30 days,
\* returns the stored record.
C3_StoreThenQuery ==
    /\ resp.op = "bridge.query" =>
          \A i \in 1..Len(bridge) :
              (/\ bridge[i].agent_id = resp.agentId
               /\ InstantOf(bridge[i].created_at) > now - Days(DefaultQueryDays)
               /\ \E k \in 1..Len(extractKeywords(bridge[i].content)) :
                     extractKeywords(bridge[i].content)[k] = resp.query[1])
              => \E k \in 1..Len(resp.results) : resp.results[k].id = bridge[i].id
    /\ (resp.op = "query" /\ resp.status = 200) =>
          \A r \in AllRows :
              (/\ Sanitize(r.project) = Sanitize(resp.project)
               /\ r.created_at > now - Days(DefaultQueryDays)
               /\ Like(r.content, resp.query))
              => \E k \in 1..Len(resp.results) : resp.results[k].id = r.id

\* the rows of the MemoryBridge database that pass the filters of the
\* query just answered
BridgeCandidateIds ==
    {bridge[i].id : i \in {k \in 1..Len(bridge) :
        BridgeWhere(bridge[k], resp.agentId, Cutoff(resp.days), resp.minImportance)}}

\* C11 as stated: a query whose string yields no keyword returns all the
\* candidates that pass the other filters, up to the limit, each with
\* relevance 1, and does not fail.
C11_NoKeywordsReturnsAll ==
    (resp.op = "bridge.query" /\ resp.keywords = <<>>) =>
          /\ Len(resp.results) =
                (IF Cardinality(BridgeCandidateIds) < resp.limit
                 THEN Cardinality(BridgeCandidateIds) ELSE resp.limit)
          /\ \A k \in 1..Len(resp.results) :
                /\ resp.results[k].id \in BridgeCandidateIds
                /\ BridgeRelevance(resp.results[k]) = [num |-> 1, den |-> 1]

\* relevance x importance of a result, times the number of query keywords
Score(m) == m.matches * Val(m.importance)

\* C12: the results of MemoryBridge.query are in descending order of
\* relevance x importance, and of two results with equal relevance x
\* importance the one created later comes first.
C12_RankedThenNewestFirst ==
    resp.op = "bridge.query" =>
        \A i, j \in 1..Len(resp.results) :
            i < j =>
                /\ Score(resp.results[i]) >= Score(resp.results[j])
                /\ Score(resp.results[i]) = Score(resp.results[j]) =>
                      ~TextLess(resp.results[i].created_at, resp.results[j].created_at)

\* C12 witness: a result list holding two matching records of equal
\* relevance x importance that were created at different instants.
C12_Witness ==
    /\ resp.op = "bridge.query"
    /\ \E i, j \in 1..Len(resp.results) :
          /\ i < j
          /\ Score(resp.results[i]) = Score(resp.results[j])
          /\ Score(resp.results[i]) > 0
          /\ TextLess(resp.results[j].created_at, resp.results[i].created_at)

\* C19 as stated: a query given a minimum importance m returns only
\* records of importance at least m, through MemoryBridge.query and through
\* GET /api/memory/query alike.
C19_MinImportanceRespected ==
    /\ resp.op = "bridge.query" =>
          \A k \in 1..Len(resp.results) :
              Val(resp.results[k].importance) >= resp.minImportance
    /\ (resp.op = "query" /\ resp.status = 200 /\ resp.minImportance.t = "number") =>
          \A k \in 1..Len(resp.results) :
              /\ ~IsNull(resp.results[k].importance)
              /\ Val(resp.results[k].importance) >= resp.minImportance.n

\* the records a server timeline request is about: live, created within the
\* window, of the agent the request names if it names one
TimelineRecords ==
    {r \in {lake[Sanitize(resp.project)].rows[i] :
                i \in 1..Len(lake[Sanitize(resp.project)].rows)} :
        /\ IsNull(r.deleted_at)
        /\ r.created_at > now - Days(resp.days.n)
        /\ Truthy(resp.agentId) => r.agent_id = resp.agentId.s}

\* the records a MemoryBridge timeline call is about
BridgeTimelineRecords ==
    {r \in {bridge[i] : i \in 1..Len(bridge)} :
        /\ IsNull(r.deleted_at)
        /\ InstantOf(r.created_at) > now - Days(resp.days)
        /\ r.agent_id = resp.agentId}

\* C13 as stated: the keys of a timeline are exactly the calendar dates of
\* the live, in-window records of the agent, and each key holds exactly the
\* records of that date, each once, newest first; for the server's
\* getTimeline and for MemoryBridge.timeline alike.
C13_TimelineGroupsByDate ==
    /\ resp.op = "timeline" =>
          /\ DOMAIN resp.timeline = {DateOf(r.created_at) : r \in TimelineRecords}
          /\ \A d \in DOMAIN resp.timeline :
                LET day == resp.timeline[d]
                IN /\ Len(day) > 0
                   /\ {day[i].id : i \in 1..Len(day)} =
                         {r.id : r \in {x \in TimelineRecords : DateOf(x.created_at) = d}}
                   /\ \A i, j \in 1..Len(day) :
                         i < j => day[i].id # day[j].id
                                  /\ day[i].created_at >= day[j].created_at
    /\ resp.op = "bridge.timeline" =>
          /\ DOMAIN resp.timeline =
                {[date |-> r.created_at.date, rest |-> <<>>] : r \in BridgeTimelineRecords}
          /\ \A k \in DOMAIN resp.timeline :
                LET day == resp.timeline[k]
                IN /\ Len(day) > 0
                   /\ {day[i].id : i \in 1..Len(day)} =
                         {r.id : r \in {x \in BridgeTimelineRecords :
                                           x.created_at.date = k.date}}
                   /\ \A i, j \in 1..Len(day) :
                         i < j => day[i].id # day[j].id
                                  /\ InstantOf(day[i].created_at) >= InstantOf(day[j].created_at)

\* an importance that was supplied and is no number of 1..10
OutOfRange(importance) ==
    /\ importance.t # "undefined"
    /\ \/ ToNumber(importance).t # "number"
       \/ ToNumber(importance).n < MinImportance
       \/ ToNumber(importance).n > MaxImportance

\* a store that ended in a validation error
Rejected(r) ==
    \/ r.op = "store" /\ r.status = 400
    \/ r.op = "bridge.store" /\ r.status = "thrown"

\* C17 as stated: a store whose supplied importance lies outside 1..10 is
\* rejected with a validation error and persists nothing, through the
\* server's route and through MemoryBridge.store alike.
C17_OutOfRangeImportanceRejected ==
    [][(resp'.op \in {"store", "bridge.store"} /\ resp' # resp
          /\ OutOfRange(resp'.given.importance)) =>
        (Rejected(resp') /\ lake' = lake /\ bridge' = bridge)]_vars

\* C18 as stated: a store of valid content and importance that names a type
\* is accepted if and only if the type is one of the eight enumerated types.
C18_TypeAcceptedIffEnumerated ==
    (resp.op \in {"store", "bridge.store"} /\ Truthy(resp.given.type)
       /\ ~OutOfRange(resp.given.importance)) =>
        (~Rejected(resp) <=>
            resp.given.type.s \in {"insight", "preference", "error", "goal", "decision",
                                   "security", "milestone", "conversation"})

\* the results a response of the cross-project query holds for one project
ResultsOf(project) == SelectSeq(resp.results, LAMBDA r : r.project = project)

\* C20: the cross-project query returns at most the overall limit of
\* results (the limit given, 10 without one), in order of non-increasing
\* importance; every result is one of the results the query of its own
\* project gives, no project contributes more than its sub-limit (the limit
\* given, 3 without one), and a result left out is of no higher importance
\* than any result returned.
C20_CrossProjectMerge ==
    (resp.op = "query-all" /\ resp.status = 200) =>
        LET overall == OrElse(resp.limit, JsNum(DefaultOverallLimit)).n
            sub == OrElse(resp.limit, JsNum(DefaultSubLimit)).n
            own(p) == ProjectResults(p, resp.query, resp.agentId, resp.limit)
            all == UNION {{own(p)[i] : i \in 1..Len(own(p))} : p \in listProjects}
            got == {resp.results[i] : i \in 1..Len(resp.results)}
        IN /\ Len(resp.results) <= overall
           /\ \A i, j \in 1..Len(resp.results) :
                 i < j => /\ ImportanceNumber(resp.results[i]) >=
                                ImportanceNumber(resp.results[j])
                          /\ resp.results[i].id # resp.results[j].id
           /\ got \subseteq all
           /\ \A p \in listProjects : Len(ResultsOf(p)) <= sub
           /\ Len(resp.results) = MathMin(JsNum(overall), JsNum(Cardinality(all))).n
           /\ \A r \in all \ got : \A g \in got :
                 ImportanceNumber(r) <= ImportanceNumber(g)

\* C20 witness: a cross-project query with a limit, over two projects that
\* each hold a matching record, returned the more important record and left
\* the other out.
C20_Witness ==
    /\ resp.op = "query-all" /\ resp.status = 200
    /\ Truthy(resp.limit)
    /\ Len(resp.projectsSearched) = 2
    /\ resp.count > Len(resp.results)
    /\ Len(resp.results) > 0
    /\ \E n \in Partitions : \E i \in 1..Len(lake[n].rows) :
          /\ lake[n].rows[i].id \notin {resp.results[k].id : k \in 1..Len(resp.results)}
          /\ ~IsNull(lake[n].rows[i].importance)
          /\ Val(lake[n].rows[i].importance) < ImportanceNumber(resp.results[1])

\* C14 as stated: decrypt, given the blob and the iv encryptWithIndex
\* returned for a plaintext and the same key, returns that plaintext,
\* whatever the plaintext.
C14_RoundTrip ==
    (resp.op = "decrypt" /\ ~resp.tampered /\ resp.usedKey = resp.key) =>
        /\ resp.outcome.status = "returned"
        /\ resp.outcome.plaintext = resp.content

\* C14 amended: decrypt, given the blob and the iv encryptWithIndex returned
\* for a plaintext and the same key, returns that plaintext, for every
\* plaintext that is a well-formed Unicode string (each surrogate code unit
\* is half of a pair).
C14_RoundTripWellFormed ==
    LET P == resp.content
        WellFormed ==
            \A i \in 1..Len(P) :
                /\ P[i] = HighSurrogate => (i < Len(P) /\ P[i + 1] = LowSurrogate)
                /\ P[i] = LowSurrogate => (i > 1 /\ P[i - 1] = HighSurrogate)
    IN (resp.op = "decrypt" /\ ~resp.tampered /\ resp.usedKey = resp.key /\ WellFormed) =>
          /\ resp.outcome.status = "returned"
          /\ resp.outcome.plaintext = resp.content

\* C14 witness: a plaintext holding a character outside ASCII (a surrogate
\* pair or U+00E9) came back from decrypt under the key it was encrypted
\* with.
C14_Witness ==
    /\ resp.op = "decrypt" /\ ~resp.tampered /\ resp.usedKey = resp.key
    /\ resp.outcome.status = "returned"
    /\ resp.outcome.plaintext = resp.content
    /\ \E i \in 1..Len(resp.content) : resp.content[i] \in {HighSurrogate, "U+00E9"}

\* C15: for a keyword K that extractKeywords finds in a content, the token
\* generateQueryIndex gives for K written in any letter case, under the key
\* of the encryption, is the blind-index token encryptWithIndex stored for
\* K, the one the key and the lower-cased keyword determine.
C15_QueryIndexMatches ==
    (resp.op = "index" /\ resp.usedKey = resp.key) =>
        LET keywords == cryptoExtractKeywords(resp.content)
            Upper(c) == CASE c = "a" -> "A" [] c = "b" -> "B" [] c = "g" -> "G"
                          [] c = "p" -> "P" [] OTHER -> c
            CaseForm(q, K) ==
                /\ Len(q) = Len(K)
                /\ \A i \in 1..Len(K) : q[i] \in {K[i], Upper(K[i])}
        IN \A n \in 1..Len(keywords) :
              CaseForm(resp.query, keywords[n]) =>
                  /\ Len(resp.blindIndexes) = Len(keywords)
                  /\ resp.token = resp.blindIndexes[n]
                  /\ resp.token = HmacHex(getHmacKey(resp.key), keywords[n])

\* C15 witness: a query written with upper-case letters got the token
\* stored for a keyword of the content.
C15_Witness ==
    /\ resp.op = "index" /\ resp.usedKey = resp.key
    /\ \E i \in 1..Len(resp.query) : resp.query[i] \in {"A", "B", "P"}
    /\ \E n \in 1..Len(resp.blindIndexes) : resp.token = resp.blindIndexes[n]

\* C16 as stated: decrypt of a blob whose ciphertext or tag was modified
\* after the encryption signals an error and returns no plaintext.
C16_TamperedNeverDecrypts ==
    (resp.op = "decrypt" /\ resp.tampered) => resp.outcome.status = "thrown"

\* C21 as stated: the keywords extractKeywords returns, by nlp or by its
\* fallback basicExtract, are lower-case, pairwise distinct, longer than 3
\* characters, at most 10, and hold no stop word, the stop words being the
\* same for both strategies.
C21_KeywordsWellFormed ==
    resp.op = "keywords" =>
        /\ Len(resp.keywords) <= KeywordCap
        /\ \A i \in 1..Len(resp.keywords) :
              LET k == resp.keywords[i]
              IN /\ Len(k) > 3
                 /\ \A n \in 1..Len(k) : k[n] \notin {"A", "B", "G", "P"}
                 /\ k \notin stops \cup stopWords
                 /\ \A j \in 1..Len(resp.keywords) : j # i => resp.keywords[j] # k

\* C22 as stated: a partition comes into existence only by a store to its
\* project; a query or a timeline brings none into existence.  (A project
\* identifier has one partition by construction: getProjectDbPath is a
\* function of the identifier.)
C22_PartitionsCreatedByStore ==
    [][\A n \in Partitions :
          (lake'[n].dir /\ ~lake[n].dir) =>
              /\ resp'.op = "store" /\ resp'.status = 200
              /\ getProjectDbPath(resp'.project) = n]_vars

\* C23 as stated: a memory stored by MemoryBridge.store without an
\* importance gets the base value 5 plus the increment documented for its
\* type (insight +1, preference 0, goal +2, milestone +2, decision +1,
\* error +2, security +3), capped at 10.
C23_DocumentedAutoImportance ==
    (resp.op = "bridge.store" /\ resp.status = "resolved"
       /\ resp.given.importance.t = "undefined") =>
        LET type == OrElse(resp.given.type, JsStr("insight")).s
            increment == CASE type \in {"insight", "decision"} -> 1
                           [] type \in {"goal", "milestone", "error"} -> 2
                           [] type = "security" -> 3
                           [] OTHER -> 0
            row == CHOOSE r \in {bridge[i] : i \in 1..Len(bridge)} : r.id = resp.id
        IN row.importance = Some(MathMin(JsNum(DefaultImportance + increment),
                                         JsNum(MaxImportance)).n)

\* C24 as stated: the database handle an operation opened is closed by the
\* time the operation ends, on every path; a handle is open only while the
\* code of its operation is still running.
C24_HandlesClosed ==
    \A j \in Jobs : jobs[j].db = "open" => jobs[j].pc = "loop"

\* C25 as stated: every invocation eventually settles, also when a
\* statement inside it fails; a compress that has entered its loop
\* eventually resolves or rejects.
C25_CompressSettles ==
    \A j \in Jobs :
        (jobs[j].pc = "loop") ~> (jobs[j].pc \in {"resolved", "rejected", "idle"})

\* C26 as stated: while a compress invocation is between its candidate
\* SELECT and its last UPDATE, the records of its partition change only by
\* that invocation's own UPDATE; no store, cleanup or other compress takes
\* effect on the partition in between.
C26_SingleWriter ==
    [][\A j \in Jobs :
         (jobs[j].pc = "loop" /\ jobs'[j] = jobs[j])
            => lake'[jobs[j].name].rows = lake[jobs[j].name].rows]_vars

\* C27 as stated: an UPDATE of compress changes only the record's content,
\* the compressed flag and the original length in its metadata, and its
\* modification timestamp; every other field and every other metadata
\* entry of the record is the same after it.
C27_CompressFrame ==
    [][\A j \in Jobs :
         jobs'[j].compressed = jobs[j].compressed + 1 =>
            LET old == lake[jobs[j].name].rows
                new == lake'[jobs[j].name].rows
            IN /\ Len(new) = Len(old)
               /\ \A i \in 1..Len(old) :
                    [new[i] EXCEPT !.content = old[i].content,
                                   !.updated_at = old[i].updated_at,
                                   !.metadata.compressed = old[i].metadata.compressed,
                                   !.metadata.original_length =
                                       old[i].metadata.original_length]
                       = old[i]]_vars

LongOldRecords ==
    {r \in UNION {{lake[n].rows[i] : i \in 1..Len(lake[n].rows)} : n \in Partitions} :
        /\ r.created_at < Cutoff(DefaultCompressDays)
        /\ IsNull(r.deleted_at)
        /\ IsLong(r.content)}

\* C28 as stated: with compress invoked repeatedly and no store in between,
\* every old long record is eventually compressed, however many old short
\* records the partition holds.
C28_LongEventuallyCompressed ==
    ([]<>(\E j \in Jobs : jobs[j].pc = "loop")) => <>(LongOldRecords = {})

\* the contents MemoryBridge holds, and those its last query or timeline
\* returned
BridgeContents ==
    {bridge[i].content : i \in 1..Len(bridge)}
      \cup (IF resp.op = "bridge.query"
            THEN {resp.results[i].content : i \in 1..Len(resp.results)}
            ELSE {})
      \cup (IF resp.op = "bridge.timeline"
            THEN UNION {{resp.timeline[k][i].content : i \in 1..Len(resp.timeline[k])} :
                           k \in DOMAIN resp.timeline}
            ELSE {})

\* C30 as stated: the content persisted for an accepted store, and returned
\* by query or timeline, equals the supplied content exactly.
C30_ContentVerbatim ==
    \A c \in BridgeContents : c = Text(c.base)

====
